---- MODULE Spec2Model ----
(***************************************************************************)
(* A model of the API-orchestration core of src/src/lib/apis/index.ts:     *)
(* the model catalog build (getModels) as a state machine over its await   *)
(* points, and the task decoders' text extraction as pure operators.       *)
(*                                                                         *)
(* JavaScript objects are TLA+ records (functions over field names): an    *)
(* absent field is a field name outside the record's DOMAIN, and the       *)
(* spread  {...m, k: v}  is  (k :> v) @@ m.                                 *)
(***************************************************************************)
EXTENDS Integers, Sequences, FiniteSets, TLC

(***************************************************************************)
(* Bounds of the model.                                                    *)
(***************************************************************************)
MaxConn == 2      \* length of connections.OPENAI_API_BASE_URLS is 0..MaxConn
MaxBase == 2      \* number of entries the base catalog answers with
MaxRemote == 1    \* number of entries one connection's listing answers with
MaxProse == 1     \* number of characters of the prose on each side of the middle
MaxItems == 1     \* number of elements of a list inside an object
MaxPaths == 2     \* number of paths of a tool server's document
MaxServers == 3   \* number of entries of the servers argument of getToolServersData

(***************************************************************************)
(* Values the inputs are drawn from.                                       *)
(***************************************************************************)
BaseIds == {"a", "7"}            \* ids the primary backend lists
RemoteIds == {"a"}               \* ids a connection's endpoint lists
AllowLists == {<< >>, <<"a">>}   \* apiConfig.model_ids
Prefixes == {"p"}                \* apiConfig.prefix_id when set
TagLists == {<<"t">>}            \* apiConfig.tags when set

RECURSIVE SeqsUpTo(_, _)
SeqsUpTo(S, n) ==
    IF n = 0 THEN {<< >>}
    ELSE LET shorter == SeqsUpTo(S, n - 1)
         IN  shorter \cup {Append(s, x) : s \in {t \in shorter : Len(t) = n - 1}, x \in S}

\* Indexes of OPENAI_API_BASE_URLS, 0-based as in the source ("for idx in").
Indexes(n) == 0 .. (n - 1)

(***************************************************************************)
(* Inputs of getModels.                                                    *)
(***************************************************************************)
\* The object {}.
EmptyObject == [x \in {} |-> x]

\* One entry of connections.OPENAI_API_CONFIGS.  enable and model_ids are
\* always written (absent, they default to true and [], lines 63-64);
\* prefix_id and tags are optional fields, here both set or both absent.
ApiConfigs ==
    LET core == [enable : BOOLEAN, model_ids : AllowLists]
    IN  core \cup {("prefix_id" :> p) @@ ("tags" :> t) @@ c :
                      c \in core, p \in Prefixes, t \in TagLists}

\* The connections argument: null, or URLs 0..n-1 with a configuration for
\* some of the indexes.
Connections ==
    {[isNull |-> TRUE, n |-> 0, configs |-> EmptyObject]}
    \cup UNION {UNION {[isNull : {FALSE}, n : {n}, configs : [S -> ApiConfigs]]
                       : S \in SUBSET Indexes(n)}
                : n \in 0 .. MaxConn}

\* An entry of the base catalog as the primary backend answers it.
BaseModel(id) == [id |-> id, name |-> id, owned_by |-> "ollama"]
BaseCatalogs == SeqsUpTo({BaseModel(id) : id \in BaseIds}, MaxBase)

\* An entry of a connection's model listing; name is optional there.
\* origin is a history field: the connection whose endpoint listed the entry.
RemoteModels(idx) ==
    {[id |-> id, owned_by |-> "openai", origin |-> idx] : id \in RemoteIds}
RemoteLists(idx) == SeqsUpTo(RemoteModels(idx), MaxRemote)

VARIABLES
    pc,          \* position of getModels: "idle", "base", "all", "done", "thrown"
    base,        \* the base argument
    connections, \* the connections argument
    fetched,     \* what the base request answered (res?.data ?? [])
    requests,    \* the promises pushed to requests, in push order
    silent,      \* positions of requests whose endpoint will never answer
    issued,      \* history: the requests sent over the network, in the order sent
    answered,    \* history: what the base request settled with
    settled,     \* history: positions of the listing requests, in the order answered
    models,      \* the returned list
    error        \* the value thrown

gmVars ==
    <<pc, base, connections, fetched, requests, silent, issued, answered, settled,
      models, error>>

VARIABLES
    content,     \* the completion content a task decoder is given
    parts,       \* history: the prose before, the middle and the prose after
    op,          \* the operation applied to content: "none", "input", ...
    out          \* what the operation returned

txVars == <<content, parts, op, out>>

VARIABLES
    tkpc,        \* position of a task operation: "idle", "sent", "returned", "thrown"
    tkargs,      \* its arguments: which task, and the token
    tkreq,       \* the request it sent
    tkans,       \* history: what the fetch settled with
    tkres        \* the value it returned or threw

tkVars == <<tkpc, tkargs, tkreq, tkans, tkres>>

VARIABLES
    tspc,        \* position of a tool-server operation: "idle", "sent", "returned", "thrown"
    tsargs,      \* its arguments
    tsreq,       \* the request it sent, if any
    tsans,       \* history: what the fetch settled with
    tsres        \* the value it returned or threw

tsVars == <<tspc, tsargs, tsreq, tsans, tsres>>

VARIABLES
    svpc,        \* position of getToolServersData: "idle", "all", "returned", "thrown"
    servers,     \* the servers argument
    svreqs,      \* the promises of the mapped callbacks, in map order
    svorder,     \* history: positions of the promises, in the order their fetch settled
    svres        \* the returned list

svVars == <<svpc, servers, svreqs, svorder, svres>>

vars == <<gmVars, txVars, tkVars, tsVars, svVars>>

(***************************************************************************)
(* getModels: the base request (lines 23-46).                              *)
(***************************************************************************)
Null == "null"

\* What the fetch of /api/models[/base] can settle with: a 2xx answer whose
\* JSON body has a data list or none, a network failure (fetch rejects), or
\* a non-2xx answer whose JSON body is an object or a falsy value.
BaseOutcomes ==
    {[ok |-> TRUE, body |-> [data |-> d]] : d \in BaseCatalogs}
    \cup {[ok |-> TRUE, body |-> [object |-> "list"]]}
    \cup {[ok |-> FALSE, err |-> e] : e \in {"TypeError: Failed to fetch", "{detail}", Null}}

\* JavaScript truthiness of the caught value (line 42).
Truthy(e) == e # Null

\* let models = res?.data ?? []  (line 46)
BaseData(res) == IF "data" \in DOMAIN res THEN res.data ELSE << >>

(***************************************************************************)
(* getModels: the per-connection requests (lines 56-113).                  *)
(***************************************************************************)
\* modelIds.map(...) of lines 70-76; the entry is made locally for
\* connection idx, which is therefore its origin.
SynthModel(modelId, idx) ==
    [id |-> modelId, name |-> modelId, owned_by |-> "openai",
     openai |-> [id |-> modelId], urlIdx |-> idx, origin |-> idx]

\* The empty list a disabled connection contributes (lines 104-108).
EmptyList(idx) == [object |-> "list", data |-> << >>, urlIdx |-> idx]

\* A wrapper without the .catch: the rejection reaches Promise.all.
CatchListErrorRethrows(idx) == [state |-> "rejected"]

\* A wrapper that asks the endpoint again after a failure: its promise is
\* pending once more.
CatchListErrorRetries(idx) == [state |-> "pending"]

\* The .catch of lines 91-97: a failed listing becomes an empty list.
CatchListError(idx) == [state |-> "fulfilled", value |-> EmptyList(idx)]

\* The allow-list looked at before enable.
RequestForIdsFirst(apiConfig, idx) ==
    IF Len(apiConfig.model_ids) > 0
    THEN [state |-> "fulfilled", conn |-> idx, sent |-> FALSE,
          value |-> [object |-> "list",
                     data |-> [k \in 1 .. Len(apiConfig.model_ids) |->
                                  SynthModel(apiConfig.model_ids[k], idx)]]]
    ELSE IF apiConfig.enable
         THEN [state |-> "pending", conn |-> idx, sent |-> TRUE]
         ELSE [state |-> "fulfilled", conn |-> idx, sent |-> FALSE, value |-> EmptyList(idx)]

\* The promise pushed for connection idx, whose configuration exists
\* (lines 61-111).  A listing request is pending until its endpoint answers.
RequestFor(apiConfig, idx) ==
    IF apiConfig.enable
    THEN IF Len(apiConfig.model_ids) > 0
         THEN [state |-> "fulfilled", conn |-> idx, sent |-> FALSE,
               value |-> [object |-> "list",
                          data |-> [k \in 1 .. Len(apiConfig.model_ids) |->
                                       SynthModel(apiConfig.model_ids[k], idx)]]]
         ELSE [state |-> "pending", conn |-> idx, sent |-> TRUE]
    ELSE [state |-> "fulfilled", conn |-> idx, sent |-> FALSE, value |-> EmptyList(idx)]

\* The loop of lines 57-113: one promise per index that has a configuration,
\* in index order.
RECURSIVE PushRequests(_, _)
PushRequests(conns, idx) ==
    IF idx >= conns.n THEN << >>
    ELSE (IF idx \in DOMAIN conns.configs
          THEN <<RequestFor(conns.configs[idx], idx)>>
          ELSE << >>) \o PushRequests(conns, idx + 1)

\* What getOpenAIModelsDirect(url, key) can settle with for connection idx:
\* it resolves with the endpoint's listing or rejects.
ListingOutcomes(idx) ==
    {[ok |-> TRUE, body |-> [object |-> "list", data |-> d]] : d \in RemoteLists(idx)}
    \cup {[ok |-> FALSE]}

\* The async wrapper of lines 86-98 once getOpenAIModelsDirect has settled.
\* answer is a history field: how the endpoint answered.
SettleListing(req, outcome) ==
    IF outcome.ok
    THEN ("state" :> "fulfilled") @@ ("value" :> outcome.body) @@ ("answer" :> "ok") @@ req
    ELSE CatchListError(req.conn) @@ ("answer" :> "error") @@ req

\* Promise.all(requests) (line 115): settled when every promise is fulfilled,
\* rejected as soon as one is.
AllState(reqs) ==
    IF \E k \in DOMAIN reqs : reqs[k].state = "rejected" THEN "rejected"
    ELSE IF \A k \in DOMAIN reqs : reqs[k].state = "fulfilled" THEN "fulfilled"
    ELSE "pending"

\* The fetch of line 24: GET /api/models, or /api/models/base when base.
BaseRequest(b) == [to |-> IF b THEN "/api/models/base" ELSE "/api/models", conn |-> -1]

\* The calls of getOpenAIModelsDirect the loop of lines 57-113 has made, in
\* the order made: one for each promise pushed by line 84.
ListingRequests(reqs) ==
    LET RECURSIVE from(_)
        from(k) ==
            IF k > Len(reqs) THEN << >>
            ELSE (IF reqs[k].sent
                  THEN <<[to |-> "listing", conn |-> reqs[k].conn]>>
                  ELSE << >>) \o from(k + 1)
    IN  from(1)

(***************************************************************************)
(* getModels: applying the configurations and merging (lines 117-156).     *)
(***************************************************************************)
\* OPENAI_API_CONFIGS[idx.toString()] ?? {}  (line 119)
ConfigAt(conns, idx) ==
    IF idx \in DOMAIN conns.configs THEN conns.configs[idx] ELSE EmptyObject

\* Lines 121-122: response?.data ?? [], each entry given openai and urlIdx.
WithUrlIdx(response, idx) ==
    LET data == IF "data" \in DOMAIN response THEN response.data ELSE << >>
    IN  [k \in 1 .. Len(data) |->
            ("openai" :> [id |-> data[k].id]) @@ ("urlIdx" :> idx) @@ data[k]]

\* Lines 124-129: model.id = `${prefixId}.${model.id}` when prefixId is truthy.
WithPrefix(model, apiConfig) ==
    IF "prefix_id" \in DOMAIN apiConfig /\ apiConfig.prefix_id # ""
    THEN ("id" :> (apiConfig.prefix_id \o "." \o model.id)) @@ model
    ELSE model

\* Lines 131-136: model.tags = tags when tags is set.
WithTags(model, apiConfig) ==
    IF "tags" \in DOMAIN apiConfig
    THEN ("tags" :> apiConfig.tags) @@ model
    ELSE model

\* The body of the loop of lines 117-139 for the response at position idx
\* of responses (0-based).
ResponseModels(conns, response, idx) ==
    LET apiConfig == ConfigAt(conns, idx)
        ms == WithUrlIdx(response, idx)
    IN  [k \in 1 .. Len(ms) |-> WithTags(WithPrefix(ms[k], apiConfig), apiConfig)]

\* The responses taken in the order in which they arrived: the answered
\* ones as settled lists them, then the ones made locally.
LocalModelsAsCompleted(conns, reqs, n) ==
    LET local == {k \in 1 .. n : \A i \in DOMAIN settled : settled[i] # k}
        RECURSIVE ascending(_)
        ascending(S) ==
            IF S = {} THEN << >>
            ELSE LET k == CHOOSE x \in S : \A y \in S : x <= y
                 IN  <<k>> \o ascending(S \ {k})
        order == settled \o ascending(local)
        RECURSIVE upto(_)
        upto(m) ==
            IF m = 0 THEN << >>
            ELSE upto(m - 1)
                 \o ResponseModels(conns, reqs[order[m]].value, order[m] - 1)
    IN  upto(Len(order))

\* localModels after the loop of lines 117-139 has run over positions
\* 0 .. n-1 of responses.
RECURSIVE LocalModels(_, _, _)
LocalModels(conns, reqs, n) ==
    IF n = 0 THEN << >>
    ELSE LocalModels(conns, reqs, n - 1) \o ResponseModels(conns, reqs[n].value, n - 1)

\* Lines 143-147: name defaults to id, direct is set.
MarkDirect(model) ==
    ("name" :> (IF "name" \in DOMAIN model THEN model.name ELSE model.id))
    @@ ("direct" :> TRUE) @@ model

\* Lines 150-153: the position in ms of the entry modelsMap holds for id.
LastWriteOf(ms, id) ==
    CHOOSE k \in DOMAIN ms :
        ms[k].id = id /\ \A j \in DOMAIN ms : ms[j].id = id => j <= k

FirstWriteOf(ms, id) ==
    CHOOSE k \in DOMAIN ms :
        ms[k].id = id /\ \A j \in DOMAIN ms : ms[j].id = id => k <= j

\* Property keys that are canonical array indexes, with their value: an
\* object enumerates those first, in ascending numeric order.
ArrayIndex == ("7" :> 7) @@ ("3" :> 3)

\* The rank of key id among the own keys of modelsMap: array indexes by
\* value, then the other keys by the time of their first insertion.
KeyBefore(ms, a, b) ==
    IF a \in DOMAIN ArrayIndex
    THEN IF b \in DOMAIN ArrayIndex THEN ArrayIndex[a] < ArrayIndex[b] ELSE TRUE
    ELSE IF b \in DOMAIN ArrayIndex THEN FALSE
         ELSE FirstWriteOf(ms, a) < FirstWriteOf(ms, b)

\* A map in which the first write of a key wins.
ObjectValuesFirstWins(ms) ==
    LET keys == {ms[k].id : k \in DOMAIN ms}
        rank(id) == Cardinality({o \in keys : KeyBefore(ms, o, id)})
    IN  [r \in 1 .. Cardinality(keys) |->
            ms[FirstWriteOf(ms, CHOOSE id \in keys : rank(id) = r - 1)]]

\* Lines 150-155: modelsMap[model.id] = model for each model in order, then
\* Object.values(modelsMap).
ObjectValues(ms) ==
    LET keys == {ms[k].id : k \in DOMAIN ms}
        rank(id) == Cardinality({o \in keys : KeyBefore(ms, o, id)})
    IN  [r \in 1 .. Cardinality(keys) |->
            ms[LastWriteOf(ms, CHOOSE id \in keys : rank(id) = r - 1)]]

\* Map f over a sequence.
MapDirect(ms) == [k \in 1 .. Len(ms) |-> MarkDirect(ms[k])]

\* Lines 142-155: what getModels returns once every promise is fulfilled.
Merged(conns, data, reqs) ==
    ObjectValues(data \o MapDirect(LocalModels(conns, reqs, Len(reqs))))

\* The merge entered whatever base is.
WantsMergeIgnoringBase(conns, b) == ~conns.isNull

\* if (connections && !base)  (line 48)
WantsMerge(conns, b) == ~conns.isNull /\ ~b


(***************************************************************************)
(* Text.  A string is a sequence of characters, each a one-character       *)
(* string; the characters that cannot be written in a string here have a   *)
(* name.                                                                   *)
(***************************************************************************)
DQ == "\""            \* U+0022
BS == "\\"            \* U+005C
APOS == "'"           \* U+0027
LSQUO == "LSQUO"      \* U+2018
RSQUO == "RSQUO"      \* U+2019
BACKTICK == "BACKTICK" \* U+0060
LF == "LF"            \* U+000A
TAB == "TAB"          \* U+0009

\* String.prototype.indexOf / lastIndexOf for a one-character pattern:
\* 0-based, -1 when the character does not occur.
indexOf(str, c) ==
    IF \E i \in DOMAIN str : str[i] = c
    THEN (CHOOSE i \in DOMAIN str : str[i] = c /\ \A j \in 1 .. (i - 1) : str[j] # c) - 1
    ELSE -1

lastIndexOf(str, c) ==
    IF \E i \in DOMAIN str : str[i] = c
    THEN (CHOOSE i \in DOMAIN str : str[i] = c /\ \A j \in (i + 1) .. Len(str) : str[j] # c) - 1
    ELSE -1

\* String.prototype.substring(start, end) for 0 <= start, end: the arguments
\* are clamped to the length and swapped when start > end.
substring(str, start, end) ==
    LET a == IF start > Len(str) THEN Len(str) ELSE start
        b == IF end > Len(str) THEN Len(str) ELSE end
        lo == IF a <= b THEN a ELSE b
        hi == IF a <= b THEN b ELSE a
    IN  SubSeq(str, lo + 1, hi)

(***************************************************************************)
(* JSON values: a tag t and a payload v.  A string's payload is its        *)
(* characters, a number's its digits, a literal's its name, an array's     *)
(* its elements, an object's its members [k, x] in insertion order.        *)
(***************************************************************************)
Str(cs) == [t |-> "str", v |-> cs]
Num(ds) == [t |-> "num", v |-> ds]
Lit(name) == [t |-> "lit", v |-> name]
Arr(xs) == [t |-> "arr", v |-> xs]
Obj(ps) == [t |-> "obj", v |-> ps]

Digits == {"0", "1", "2", "3", "4", "5", "6", "7", "8", "9"}
HexDigits == Digits \cup {"a", "b", "c", "d", "e", "f", "A", "B", "C", "D", "E", "F"}
Whitespace == {" ", LF, TAB}

\* The character a \uXXXX escape stands for; a code unit outside the table
\* stands for itself, written symbolically.
CodeUnit(h) ==
    CASE h = <<"0", "0", "2", "7">> -> APOS
      [] h = <<"0", "0", "6", "0">> -> BACKTICK
      [] h = <<"2", "0", "1", "8">> -> LSQUO
      [] h = <<"2", "0", "1", "9">> -> RSQUO
      [] h = <<"0", "0", "2", "2">> -> DQ
      [] OTHER -> "u" \o h[1] \o h[2] \o h[3] \o h[4]

\* The character a two-character escape stands for.
SimpleEscape ==
    (DQ :> DQ) @@ (BS :> BS) @@ ("/" :> "/") @@ ("n" :> LF) @@ ("t" :> TAB)

Fail == [ok |-> FALSE]
Ok(pos, val) == [ok |-> TRUE, pos |-> pos, val |-> val]

RECURSIVE SkipWs(_, _)
SkipWs(s, i) ==
    IF i <= Len(s) /\ s[i] \in Whitespace THEN SkipWs(s, i + 1) ELSE i

RECURSIVE ScanDigits(_, _)
ScanDigits(s, i) ==
    IF i <= Len(s) /\ s[i] \in Digits THEN ScanDigits(s, i + 1) ELSE i

MatchAt(s, i, w) ==
    i + Len(w) - 1 <= Len(s) /\ SubSeq(s, i, i + Len(w) - 1) = w

\* The characters of a string literal from position i, just after the
\* opening quote, up to the closing quote.
RECURSIVE ParseChars(_, _, _)
ParseChars(s, i, acc) ==
    IF i > Len(s) THEN Fail
    ELSE IF s[i] = DQ THEN Ok(i + 1, acc)
    ELSE IF s[i] \in {LF, TAB} THEN Fail
    ELSE IF s[i] # BS THEN ParseChars(s, i + 1, Append(acc, s[i]))
    ELSE IF i + 1 > Len(s) THEN Fail
    ELSE IF s[i + 1] \in DOMAIN SimpleEscape
         THEN ParseChars(s, i + 2, Append(acc, SimpleEscape[s[i + 1]]))
    ELSE IF /\ s[i + 1] = "u"
            /\ i + 5 <= Len(s)
            /\ \A j \in (i + 2) .. (i + 5) : s[j] \in HexDigits
         THEN ParseChars(s, i + 6, Append(acc, CodeUnit(SubSeq(s, i + 2, i + 5))))
    ELSE Fail

\* An integer literal (the texts considered hold no fraction or exponent).
ParseNumber(s, i) ==
    LET j == IF s[i] = "-" THEN i + 1 ELSE i
        e == ScanDigits(s, j)
    IN  IF e = j THEN Fail
        ELSE IF s[j] = "0" THEN Ok(j + 1, Num(SubSeq(s, i, j)))
        ELSE Ok(e, Num(SubSeq(s, i, e - 1)))

\* Object members: a later member of the same key replaces the value and
\* keeps the position.
PutMember(ps, k, x) ==
    IF \E j \in DOMAIN ps : ps[j].k = k
    THEN [j \in DOMAIN ps |-> IF ps[j].k = k THEN [k |-> k, x |-> x] ELSE ps[j]]
    ELSE Append(ps, [k |-> k, x |-> x])

RECURSIVE ParseValue(_, _), ParseMembers(_, _, _, _), ParseElements(_, _, _, _)
ParseValue(s, i) ==
    IF i > Len(s) THEN Fail
    ELSE IF s[i] = "{" THEN ParseMembers(s, SkipWs(s, i + 1), << >>, TRUE)
    ELSE IF s[i] = "[" THEN ParseElements(s, SkipWs(s, i + 1), << >>, TRUE)
    ELSE IF s[i] = DQ
         THEN LET r == ParseChars(s, i + 1, << >>)
              IN  IF r.ok THEN Ok(r.pos, Str(r.val)) ELSE Fail
    ELSE IF s[i] \in Digits \cup {"-"} THEN ParseNumber(s, i)
    ELSE IF MatchAt(s, i, <<"t", "r", "u", "e">>) THEN Ok(i + 4, Lit(<<"true">>))
    ELSE IF MatchAt(s, i, <<"n", "u", "l", "l">>) THEN Ok(i + 4, Lit(<<"null">>))
    ELSE IF MatchAt(s, i, <<"f", "a", "l", "s", "e">>) THEN Ok(i + 5, Lit(<<"false">>))
    ELSE Fail

ParseMembers(s, i, acc, first) ==
    IF i > Len(s) THEN Fail
    ELSE IF first /\ s[i] = "}" THEN Ok(i + 1, Obj(acc))
    ELSE IF s[i] # DQ THEN Fail
    ELSE LET key == ParseChars(s, i + 1, << >>)
         IN  IF ~key.ok THEN Fail
             ELSE LET c == SkipWs(s, key.pos)
                  IN  IF c > Len(s) \/ s[c] # ":" THEN Fail
                      ELSE LET val == ParseValue(s, SkipWs(s, c + 1))
                           IN  IF ~val.ok THEN Fail
                               ELSE LET n == SkipWs(s, val.pos)
                                        acc2 == PutMember(acc, key.val, val.val)
                                    IN  IF n > Len(s) THEN Fail
                                        ELSE IF s[n] = "}" THEN Ok(n + 1, Obj(acc2))
                                        ELSE IF s[n] = ","
                                             THEN ParseMembers(s, SkipWs(s, n + 1), acc2, FALSE)
                                        ELSE Fail

ParseElements(s, i, acc, first) ==
    IF i > Len(s) THEN Fail
    ELSE IF first /\ s[i] = "]" THEN Ok(i + 1, Arr(acc))
    ELSE LET val == ParseValue(s, i)
         IN  IF ~val.ok THEN Fail
             ELSE LET n == SkipWs(s, val.pos)
                      acc2 == Append(acc, val.val)
                  IN  IF n > Len(s) THEN Fail
                      ELSE IF s[n] = "]" THEN Ok(n + 1, Arr(acc2))
                      ELSE IF s[n] = ","
                           THEN ParseElements(s, SkipWs(s, n + 1), acc2, FALSE)
                      ELSE Fail

\* JSON.parse(text): the value, or a SyntaxError (ok = FALSE).
JSONparse(s) ==
    LET r == ParseValue(s, SkipWs(s, 1))
    IN  IF r.ok /\ SkipWs(s, r.pos) = Len(s) + 1
        THEN [ok |-> TRUE, val |-> r.val]
        ELSE Fail

\* JSON.stringify(value).
RECURSIVE Quote(_)
Quote(cs) ==
    IF cs = << >> THEN << >>
    ELSE (CASE Head(cs) = DQ -> <<BS, DQ>>
            [] Head(cs) = BS -> <<BS, BS>>
            [] Head(cs) = LF -> <<BS, "n">>
            [] Head(cs) = TAB -> <<BS, "t">>
            [] OTHER -> <<Head(cs)>>) \o Quote(Tail(cs))

RECURSIVE JSONstringify(_), StringifyMembers(_), StringifyElements(_)
JSONstringify(x) ==
    CASE x.t = "str" -> <<DQ>> \o Quote(x.v) \o <<DQ>>
      [] x.t = "num" -> x.v
      [] x.t = "lit" -> CASE x.v = <<"true">> -> <<"t", "r", "u", "e">>
                          [] x.v = <<"null">> -> <<"n", "u", "l", "l">>
                          [] OTHER -> <<"f", "a", "l", "s", "e">>
      [] x.t = "arr" -> <<"[">> \o StringifyElements(x.v) \o <<"]">>
      [] OTHER -> <<"{">> \o StringifyMembers(x.v) \o <<"}">>

StringifyMembers(ps) ==
    IF ps = << >> THEN << >>
    ELSE <<DQ>> \o Quote(ps[1].k) \o <<DQ, ":">> \o JSONstringify(ps[1].x)
         \o (IF Len(ps) > 1 THEN <<",">> \o StringifyMembers(Tail(ps)) ELSE << >>)

StringifyElements(xs) ==
    IF xs = << >> THEN << >>
    ELSE JSONstringify(xs[1])
         \o (IF Len(xs) > 1 THEN <<",">> \o StringifyElements(Tail(xs)) ELSE << >>)


(***************************************************************************)
(* The extraction the task decoders apply to the completion content        *)
(* (generateTitle lines 603-611, generateFollowUps 667-675, generateTags   *)
(* 731-739).                                                               *)
(***************************************************************************)
\* response.replace(/['‘’`]/g, '"')  (line 603)
Sanitize(str) ==
    [i \in DOMAIN str |->
        IF str[i] \in {APOS, LSQUO, RSQUO, BACKTICK} THEN DQ ELSE str[i]]

\* if (jsonStartIndex && jsonEndIndex): index 0 taken for "not found".
FoundTruthy(jsonStartIndex, jsonEndIndex) ==
    jsonStartIndex > 0 /\ jsonEndIndex > 0

\* jsonStartIndex !== -1 && jsonEndIndex !== -1  (line 608)
Found(jsonStartIndex, jsonEndIndex) ==
    jsonStartIndex # -1 /\ jsonEndIndex # -1

\* The slice ends at the first '}' instead of the last.
JsonEndIndexFirst(sanitizedResponse) == indexOf(sanitizedResponse, "}")

\* sanitizedResponse.lastIndexOf('}')  (line 606)
JsonEndIndex(sanitizedResponse) == lastIndexOf(sanitizedResponse, "}")

\* Lines 603-611: the parsed value, or ok = FALSE when a brace is missing
\* or JSON.parse throws.
ExtractObject(response) ==
    LET sanitizedResponse == Sanitize(response)
        jsonStartIndex == indexOf(sanitizedResponse, "{")
        jsonEndIndex == JsonEndIndex(sanitizedResponse)
    IN  IF Found(jsonStartIndex, jsonEndIndex)
        THEN JSONparse(substring(sanitizedResponse, jsonStartIndex, jsonEndIndex + 1))
        ELSE Fail

\* JavaScript truthiness of a JSON value.
JsTruthy(x) ==
    CASE x.t = "str" -> x.v # << >>
      [] x.t = "num" -> x.v \notin {<<"0">>, <<"-", "0">>}
      [] x.t = "lit" -> x.v = <<"true">>
      [] x.t = "undef" -> FALSE
      [] OTHER -> TRUE

\* parsed[key] is defined.
HasMember(parsed, key) ==
    parsed.t = "obj" /\ \E j \in DOMAIN parsed.v : parsed.v[j].k = key

\* parsed[key], when defined.
Member(parsed, key) ==
    parsed.v[CHOOSE j \in DOMAIN parsed.v : parsed.v[j].k = key].x

KeyTags == <<"t", "a", "g", "s">>
KeyFollowUps == <<"f", "o", "l", "l", "o", "w", "_", "u", "p", "s">>

\* generateTags returning parsed.tags whenever it is truthy.
TagsFromContentNoListTest(response) ==
    LET parsed == ExtractObject(response)
    IN  IF ~parsed.ok THEN Arr(<< >>)
        ELSE IF JsTruthy(parsed.val) /\ HasMember(parsed.val, KeyTags)
                /\ JsTruthy(Member(parsed.val, KeyTags))
             THEN Member(parsed.val, KeyTags)
             ELSE Arr(<< >>)

\* generateTags, lines 728-752, on the completion content.
TagsFromContent(response) ==
    LET parsed == ExtractObject(response)
    IN  IF ~parsed.ok THEN Arr(<< >>)
        ELSE IF JsTruthy(parsed.val) /\ HasMember(parsed.val, KeyTags)
                /\ JsTruthy(Member(parsed.val, KeyTags))
             THEN IF Member(parsed.val, KeyTags).t = "arr"
                  THEN Member(parsed.val, KeyTags)
                  ELSE Arr(<< >>)
             ELSE Arr(<< >>)

\* generateFollowUps, lines 664-688, on the completion content.
FollowUpsFromContent(response) ==
    LET parsed == ExtractObject(response)
    IN  IF ~parsed.ok THEN Arr(<< >>)
        ELSE IF JsTruthy(parsed.val) /\ HasMember(parsed.val, KeyFollowUps)
                /\ JsTruthy(Member(parsed.val, KeyFollowUps))
             THEN IF Member(parsed.val, KeyFollowUps).t = "arr"
                  THEN Member(parsed.val, KeyFollowUps)
                  ELSE Arr(<< >>)
             ELSE Arr(<< >>)

(***************************************************************************)
(* The decoders of generateTitle (lines 600-624), generateQueries (lines   *)
(* 842-864) and generateAutoCompletion (lines 909-931) on the completion   *)
(* content.  The last two slice the content as it is.                      *)
(***************************************************************************)
KeyTitle == <<"t", "i", "t", "l", "e">>
KeyQueries == <<"q", "u", "e", "r", "i", "e", "s">>
KeyText == <<"t", "e", "x", "t">>

\* null
JsNull == Lit(<<"null">>)

\* parsed && parsed[key]
TruthyMember(parsed, key) ==
    JsTruthy(parsed) /\ HasMember(parsed, key) /\ JsTruthy(Member(parsed, key))

\* generateTitle, lines 600-624.
TitleFromContent(response) ==
    LET parsed == ExtractObject(response)
    IN  IF ~parsed.ok THEN JsNull
        ELSE IF TruthyMember(parsed.val, KeyTitle)
             THEN Member(parsed.val, KeyTitle)
             ELSE JsNull

\* Lines 845-851 and 912-918: the slice of the unchanged content, parsed.
ExtractObjectRaw(response) ==
    LET jsonStartIndex == indexOf(response, "{")
        jsonEndIndex == lastIndexOf(response, "}")
    IN  IF jsonStartIndex # -1 /\ jsonEndIndex # -1
        THEN JSONparse(substring(response, jsonStartIndex, jsonEndIndex + 1))
        ELSE Fail

\* generateQueries, lines 844-864.
QueriesFromContent(response) ==
    LET parsed == ExtractObjectRaw(response)
    IN  IF ~parsed.ok THEN Arr(<<Str(response)>>)
        ELSE IF TruthyMember(parsed.val, KeyQueries)
             THEN IF Member(parsed.val, KeyQueries).t = "arr"
                  THEN Member(parsed.val, KeyQueries)
                  ELSE Arr(<< >>)
             ELSE Arr(<< >>)

\* generateAutoCompletion, lines 911-931.
AutoCompletionFromContent(response) ==
    LET parsed == ExtractObjectRaw(response)
    IN  IF ~parsed.ok THEN Str(response)
        ELSE IF TruthyMember(parsed.val, KeyText)
             THEN Member(parsed.val, KeyText)
             ELSE Str(<< >>)

(***************************************************************************)
(* The task operations (generateTitle .. generateAutoCompletion, lines     *)
(* 563-932): the request, the .then/.catch chain on the fetch, and the     *)
(* path to the completion content.  A response body is a JSON value, or    *)
(* text that is not JSON; undefined and Error objects are values of tags   *)
(* of their own.                                                           *)
(***************************************************************************)
Undefined == [t |-> "undef", v |-> << >>]
JsError(message) == [t |-> "error", v |-> message]
NotJson == [t |-> "notjson", v |-> << >>]

Nullish(x) == x = Undefined \/ x = JsNull

\* x[key] of a value that is neither null nor undefined.
Get(x, key) == IF HasMember(x, key) THEN Member(x, key) ELSE Undefined

\* x[0]
First(x) ==
    IF x.t \in {"arr", "str"}
    THEN IF x.v = << >> THEN Undefined
         ELSE IF x.t = "arr" THEN x.v[1] ELSE Str(<<x.v[1]>>)
    ELSE Get(x, <<"0">>)

KeyChoices == <<"c", "h", "o", "i", "c", "e", "s">>
KeyMessage == <<"m", "e", "s", "s", "a", "g", "e">>
KeyContent == <<"c", "o", "n", "t", "e", "n", "t">>
KeyDetail == <<"d", "e", "t", "a", "i", "l">>

Raises(err) == [throws |-> TRUE, err |-> err]
Yields(val) == [throws |-> FALSE, val |-> val]

\* res?.choices[0]?.message?.content  (lines 601, 842, 909): reading [0] of
\* an absent choices is a TypeError.
ContentOf(res) ==
    IF Nullish(res) THEN Yields(Undefined)
    ELSE LET choices == Get(res, KeyChoices)
         IN  IF Nullish(choices)
             THEN Raises(JsError("TypeError: Cannot read properties of undefined (reading '0')"))
             ELSE LET choice == First(choices)
                  IN  IF Nullish(choice) THEN Yields(Undefined)
                      ELSE LET message == Get(choice, KeyMessage)
                           IN  IF Nullish(message) THEN Yields(Undefined)
                               ELSE Yields(Get(message, KeyContent))

\* x ?? fallback
Coalesce(x, fallback) == IF Nullish(x) THEN fallback ELSE x

Bearer == <<"B", "e", "a", "r", "e", "r", " ">>

\* The headers of a task request (lines 573-577): header names are
\* case-insensitive and written in lower case here.
TaskHeaders(token) ==
    [accept |-> "application/json",
     contentType |-> "application/json",
     authorization |-> Bearer \o token]

Tasks == {"title", "follow_ups", "tags", "emoji", "queries", "auto"}

\* The request a task operation sends (lines 571-583).
TaskRequest(task, token) ==
    [method |-> "POST", url |-> <<"/api/v1/tasks", task, "completions">>,
     headers |-> TaskHeaders(token)]

\* .then(async (res) => { if (!res.ok) throw await res.json(); return
\* res.json(); })  (lines 584-587) on what the fetch settled with.
ThenJson(outcome) ==
    IF outcome.kind = "network"
    THEN Raises(JsError("TypeError: Failed to fetch"))
    ELSE IF outcome.body = NotJson
         THEN Raises(JsError("SyntaxError: Unexpected token"))
         ELSE IF outcome.ok THEN Yields(outcome.body) ELSE Raises(outcome.body)

\* 'detail' in err  is itself a TypeError when err is not an object.
InRaises(err) == err.t \in {"str", "num", "lit", "undef"}

\* .catch((err) => { if ('detail' in err) error = err.detail; return null })
\* (lines 588-594): the value of res and of error, or the handler's own
\* TypeError.
CatchTask(err) ==
    IF InRaises(err)
    THEN Raises(JsError("TypeError: Cannot use 'in' operator"))
    ELSE [throws |-> FALSE, val |-> JsNull,
          error |-> IF HasMember(err, KeyDetail) THEN Member(err, KeyDetail) ELSE JsNull]

PICTO == "PICTO"      \* a character with the Extended_Pictographic property

\* content.replace(/["']/g, '')  (line 792)
StripQuotes(str) == SelectSeq(str, LAMBDA c : c \notin {DQ, APOS})

Returned(val) == [kind |-> "returned", val |-> val]
Thrown(val) == [kind |-> "thrown", val |-> val]

\* generateEmoji, lines 792-800.
DecodeEmoji(res) ==
    IF Nullish(res) THEN Returned(JsNull)
    ELSE LET choices == Get(res, KeyChoices)
         IN  IF Nullish(choices)
             THEN Thrown(JsError("TypeError: Cannot read properties of undefined (reading '0')"))
             ELSE IF Nullish(First(choices)) \/ Nullish(Get(First(choices), KeyMessage))
                  THEN Returned(JsNull)
                  ELSE LET c == Get(Get(First(choices), KeyMessage), KeyContent)
                       IN  IF c.t # "str"
                           THEN Thrown(JsError("TypeError: replace is not a function"))
                           ELSE IF PICTO \in {StripQuotes(c.v)[i] : i \in DOMAIN StripQuotes(c.v)}
                                THEN Returned(Str(<<PICTO>>))
                                ELSE Returned(JsNull)

\* Lines 600-624, 664-688, 728-752: the content is read inside the try.
DecodeGuarded(task, res) ==
    LET fallback == IF task = "title" THEN JsNull ELSE Arr(<< >>)
        c == ContentOf(res)
    IN  IF c.throws THEN Returned(fallback)
        ELSE LET response == Coalesce(c.val, Str(<< >>))
             IN  IF response.t # "str" THEN Returned(fallback)
                 ELSE Returned(CASE task = "title" -> TitleFromContent(response.v)
                                 [] task = "follow_ups" -> FollowUpsFromContent(response.v)
                                 [] task = "tags" -> TagsFromContent(response.v))

\* Lines 842-864 and 909-931: the content is read before the try.
DecodeUnguarded(task, res) ==
    LET c == ContentOf(res)
    IN  IF c.throws THEN Thrown(c.err)
        ELSE LET response == Coalesce(c.val, Str(<< >>))
             IN  IF response.t # "str"
                 THEN Returned(IF task = "queries" THEN Arr(<<response>>) ELSE response)
                 ELSE Returned(IF task = "queries"
                               THEN QueriesFromContent(response.v)
                               ELSE AutoCompletionFromContent(response.v))

Decode(task, res) ==
    CASE task \in {"title", "follow_ups", "tags"} -> DecodeGuarded(task, res)
      [] task = "emoji" -> DecodeEmoji(res)
      [] OTHER -> DecodeUnguarded(task, res)

\* A task operation from the settling of its fetch to its return or throw.
TaskResult(task, outcome) ==
    LET t == ThenJson(outcome)
        c == IF t.throws THEN CatchTask(t.err)
             ELSE [throws |-> FALSE, val |-> t.val, error |-> JsNull]
    IN  IF c.throws THEN Thrown(c.err)
        ELSE IF JsTruthy(c.error) THEN Thrown(c.error)
        ELSE Decode(task, c.val)

(***************************************************************************)
(* Completion contents the decoders are given: prose, a middle, prose.     *)
(***************************************************************************)
ProseChars == {"x", "{", "}"}
Phrases == {<<"S", "u", "r", "e", "!", " ">>, <<"i", "t", APOS, "s", " ">>}
ProseBefore == SeqsUpTo(ProseChars, MaxProse) \cup Phrases
ProseAfter == SeqsUpTo(ProseChars, MaxProse)

Scalars == {Str(<<"a">>), Str(<< >>), Str(<<APOS>>), Num(<<"1">>), Lit(<<"null">>)}
Lists == {Arr(xs) : xs \in SeqsUpTo({Str(<<"a">>), Num(<<"1">>)}, MaxItems)}
MemberKeys == {KeyTags, KeyFollowUps, KeyQueries, <<"k">>}
Objects ==
    {Obj(<< >>)}
    \cup {Obj(<<[k |-> key, x |-> val]>>) :
            key \in MemberKeys, val \in Scalars \cup Lists \cup {Obj(<< >>)}}

\* {"k":"'"}
EscapedApostrophe == <<"{", DQ, "k", DQ, ":", DQ, BS, "u", "0", "0", "2", "7", DQ, "}">>
\* {"tags": ["a","b"]}
TagsAB == <<"{", DQ, "t", "a", "g", "s", DQ, ":", " ", "[", DQ, "a", DQ, ",", DQ, "b", DQ, "]", "}">>
\* {"k":1,"k":[]}
DuplicateKey == <<"{", DQ, "k", DQ, ":", "1", ",", DQ, "k", DQ, ":", "[", "]", "}">>
\* {'tags':['a']}
SingleQuoted == <<"{", APOS, "t", "a", "g", "s", APOS, ":", "[", APOS, "a", APOS, "]", "}">>
\* {‘follow_ups’:[`a`]}
SmartQuoted == <<"{", LSQUO, "f", "o", "l", "l", "o", "w", "_", "u", "p", "s", RSQUO, ":", "[", BACKTICK, "a", BACKTICK, "]", "}">>
\* {"tags":}
Malformed == <<"{", DQ, "t", "a", "g", "s", DQ, ":", "}">>

\* Texts that are one well-formed JSON object.
ObjectTexts ==
    {JSONstringify(o) : o \in Objects} \cup {EscapedApostrophe, TagsAB, DuplicateKey}

\* The middles: a well-formed object, or something else.
Middles == ObjectTexts \cup {SingleQuoted, SmartQuoted, Malformed, << >>, <<"1">>}

(***************************************************************************)
(* getModels as a state machine over its await points.                     *)
(***************************************************************************)
gmInit ==
    /\ pc = "idle"
    /\ base = FALSE
    /\ connections = [isNull |-> TRUE, n |-> 0, configs |-> EmptyObject]
    /\ fetched = << >>
    /\ requests = << >>
    /\ silent = {}
    /\ issued = << >>
    /\ answered = EmptyObject
    /\ settled = << >>
    /\ models = << >>
    /\ error = Null

\* getModels(token, connections, base) is called: the base request is sent
\* (line 24).
Call(conns, b) ==
    /\ pc = "idle"
    /\ pc' = "base"
    /\ base' = b
    /\ connections' = conns
    /\ issued' = <<BaseRequest(b)>>
    /\ UNCHANGED <<fetched, requests, silent, answered, settled, models, error>>
    /\ UNCHANGED <<txVars, tkVars, tsVars, svVars>>

\* The base request settles (lines 32-46) and the function runs on to its
\* next await: it throws, returns the base catalog, or has pushed every
\* per-connection promise and awaits Promise.all (lines 48-115).
BaseSettles(outcome) ==
    /\ pc = "base"
    /\ answered' = outcome
    /\ LET err == IF outcome.ok THEN Null ELSE outcome.err
           data == IF outcome.ok THEN BaseData(outcome.body) ELSE << >>
       IN  /\ error' = err
           /\ IF Truthy(err)
              THEN /\ pc' = "thrown"
                   /\ UNCHANGED <<fetched, requests, issued, models>>
              ELSE /\ fetched' = data
                   /\ IF WantsMerge(connections, base)
                      THEN /\ requests' = PushRequests(connections, 0)
                           /\ issued' = issued \o ListingRequests(requests')
                           /\ pc' = "all"
                           /\ UNCHANGED models
                      ELSE /\ models' = data
                           /\ pc' = "done"
                           /\ UNCHANGED <<requests, issued>>
    /\ UNCHANGED <<base, connections, silent, settled>>
    /\ UNCHANGED <<txVars, tkVars, tsVars, svVars>>

\* The listing endpoint of the request at position k answers or fails, and
\* the wrapper of lines 86-98 settles.
ListingSettles(k, outcome) ==
    /\ pc = "all"
    /\ k \in DOMAIN requests
    /\ requests[k].state = "pending"
    /\ k \notin silent
    /\ requests' = [requests EXCEPT ![k] = SettleListing(requests[k], outcome)]
    /\ settled' = Append(settled, k)
    /\ UNCHANGED <<pc, base, connections, fetched, silent, issued, answered, models, error>>
    /\ UNCHANGED <<txVars, tkVars, tsVars, svVars>>

\* The listing endpoint of the request at position k turns out to be one
\* that never answers: its promise stays pending.
ListingSilent(k) ==
    /\ pc = "all"
    /\ k \in DOMAIN requests
    /\ requests[k].state = "pending"
    /\ k \notin silent
    /\ silent' = silent \cup {k}
    /\ UNCHANGED <<pc, base, connections, fetched, requests, issued, answered, settled,
                   models, error>>
    /\ UNCHANGED <<txVars, tkVars, tsVars, svVars>>

\* Promise.all has settled (line 115): the responses are merged and
\* returned (lines 117-158), or its rejection is thrown.
AllSettles ==
    /\ pc = "all"
    /\ AllState(requests) # "pending"
    /\ IF AllState(requests) = "fulfilled"
       THEN /\ models' = Merged(connections, fetched, requests)
            /\ pc' = "done"
            /\ UNCHANGED error
       ELSE /\ pc' = "thrown"
            /\ error' = "rejected"
            /\ UNCHANGED models
    /\ UNCHANGED <<base, connections, fetched, requests, silent, issued, answered, settled>>
    /\ UNCHANGED <<txVars, tkVars, tsVars, svVars>>

\* No decoder is running.
txIdle ==
    /\ content = << >>
    /\ parts = [pre |-> << >>, mid |-> << >>, post |-> << >>]
    /\ op = "none"
    /\ out = Fail

\* No task operation is running.
tkIdle ==
    /\ tkpc = "idle"
    /\ tkargs = EmptyObject
    /\ tkreq = EmptyObject
    /\ tkans = EmptyObject
    /\ tkres = EmptyObject

\* No tool-server operation is running.
tsIdle ==
    /\ tspc = "idle"
    /\ tsargs = EmptyObject
    /\ tsreq = EmptyObject
    /\ tsans = EmptyObject
    /\ tsres = EmptyObject

\* getToolServersData is not running.
svIdle ==
    /\ svpc = "idle"
    /\ servers = << >>
    /\ svreqs = << >>
    /\ svorder = << >>
    /\ svres = << >>

Init == gmInit /\ txIdle /\ tkIdle /\ tsIdle /\ svIdle

\* The endpoint of the request at position k answers, one way or another.
ListingAnswers(k) ==
    /\ k \in DOMAIN requests
    /\ \E outcome \in ListingOutcomes(requests[k].conn) : ListingSettles(k, outcome)

Next ==
    \/ \E conns \in Connections, b \in BOOLEAN : Call(conns, b)
    \/ \E outcome \in BaseOutcomes : BaseSettles(outcome)
    \/ \E k \in 1 .. MaxConn : ListingAnswers(k)
    \/ \E k \in 1 .. MaxConn : ListingSilent(k)
    \/ AllSettles

Spec == Init /\ [][Next]_vars

\* The scheduling the runtime gives: a settled Promise.all is continued, a
\* base request is answered, and an endpoint that is not silent answers.
FairSpec ==
    /\ Spec
    /\ WF_vars(AllSettles)
    /\ WF_vars(\E outcome \in BaseOutcomes : BaseSettles(outcome))
    /\ \A k \in 1 .. MaxConn : WF_vars(ListingAnswers(k))

(***************************************************************************)
(* The decoders applied to a completion content.                           *)
(***************************************************************************)
TextInit ==
    /\ gmInit
    /\ tkIdle
    /\ tsIdle
    /\ svIdle
    /\ \E pre \in ProseBefore, mid \in Middles, post \in ProseAfter :
          /\ parts = [pre |-> pre, mid |-> mid, post |-> post]
          /\ content = pre \o mid \o post
    /\ op = "input"
    /\ out = Fail

\* The extraction of lines 603-611 applied to the content.
Extract ==
    /\ op = "input"
    /\ op' = "extract"
    /\ out' = ExtractObject(content)
    /\ UNCHANGED <<content, parts, gmVars, tkVars, tsVars, svVars>>

\* The extracted value serialized with JSON.stringify and extracted again.
Reextract ==
    /\ op = "extract"
    /\ out.ok
    /\ op' = "reextract"
    /\ out' = [first |-> out, second |-> ExtractObject(JSONstringify(out.val))]
    /\ UNCHANGED <<content, parts, gmVars, tkVars, tsVars, svVars>>

\* generateTags decodes the content (lines 728-752).
GenerateTags ==
    /\ op = "input"
    /\ op' = "tags"
    /\ out' = TagsFromContent(content)
    /\ UNCHANGED <<content, parts, gmVars, tkVars, tsVars, svVars>>

\* generateFollowUps decodes the content (lines 664-688).
GenerateFollowUps ==
    /\ op = "input"
    /\ op' = "follow_ups"
    /\ out' = FollowUpsFromContent(content)
    /\ UNCHANGED <<content, parts, gmVars, tkVars, tsVars, svVars>>

\* generateQueries decodes the content (lines 842-864).
GenerateQueries ==
    /\ op = "input"
    /\ op' = "queries"
    /\ out' = QueriesFromContent(content)
    /\ UNCHANGED <<content, parts, gmVars, tkVars, tsVars, svVars>>

\* generateTitle decodes the content (lines 600-624).
GenerateTitle ==
    /\ op = "input"
    /\ op' = "title"
    /\ out' = TitleFromContent(content)
    /\ UNCHANGED <<content, parts, gmVars, tkVars, tsVars, svVars>>

\* generateAutoCompletion decodes the content (lines 909-931).
GenerateAutoCompletion ==
    /\ op = "input"
    /\ op' = "auto"
    /\ out' = AutoCompletionFromContent(content)
    /\ UNCHANGED <<content, parts, gmVars, tkVars, tsVars, svVars>>

TextNext ==
    \/ Extract
    \/ Reextract
    \/ GenerateTags
    \/ GenerateFollowUps
    \/ GenerateQueries
    \/ GenerateTitle
    \/ GenerateAutoCompletion

TextSpec == TextInit /\ [][TextNext]_vars

(***************************************************************************)
(* A task operation as a state machine over its one await (line 571).      *)
(***************************************************************************)
Tokens == {<< >>, <<"s", "k">>}

ObjOf(key, val) == Obj(<<[k |-> key, x |-> val]>>)

\* {"choices": [{"message": {"content": c}}]}
Completion(c) == ObjOf(KeyChoices, Arr(<<ObjOf(KeyMessage, ObjOf(KeyContent, c))>>))

\* Completion contents: none, prose, an object for each decoder, a
\* pictograph between quotes, and a '}' before the only '{'.
TaskContents ==
    {<< >>, <<"x">>, TagsAB, <<DQ, PICTO, DQ>>, <<"}", "1", "{">>}
    \cup {JSONstringify(ObjOf(key, Str(<<"a">>))) : key \in {KeyTitle, KeyText}}
    \cup {JSONstringify(ObjOf(key, Arr(<<Str(<<"a">>)>>))) : key \in {KeyQueries, KeyFollowUps}}

KeyError == <<"e", "r", "r", "o", "r">>

\* Bodies a task endpoint answers with: completions, completions with a
\* part missing, error bodies with and without detail, a JSON string, null,
\* and text that is not JSON.
TaskBodies ==
    {Completion(Str(c)) : c \in TaskContents}
    \cup {Completion(Num(<<"1">>)),
          Obj(<< >>),
          ObjOf(KeyChoices, Arr(<< >>)),
          ObjOf(KeyChoices, Arr(<<Obj(<< >>)>>)),
          ObjOf(KeyChoices, Arr(<<ObjOf(KeyMessage, Obj(<< >>))>>)),
          ObjOf(KeyDetail, Str(<<"n", "o">>)),
          ObjOf(KeyDetail, Str(<< >>)),
          ObjOf(KeyError, Str(<<"n", "o">>)),
          Str(<<"o", "o", "p", "s">>),
          JsNull,
          NotJson}

\* What the fetch settles with: a rejection, or a response.
TaskOutcomes ==
    {[kind |-> "network"]}
    \cup {[kind |-> "http", ok |-> ok, body |-> b] : ok \in BOOLEAN, b \in TaskBodies}

\* A task operation is called and sends its request (line 571).
TaskCall(task, token) ==
    /\ tkpc = "idle"
    /\ tkpc' = "sent"
    /\ tkargs' = [task |-> task, token |-> token]
    /\ tkreq' = TaskRequest(task, token)
    /\ UNCHANGED <<tkans, tkres>>
    /\ UNCHANGED <<gmVars, txVars, tsVars, svVars>>

\* The fetch settles and the operation runs to its return or throw.
TaskSettles(outcome) ==
    /\ tkpc = "sent"
    /\ tkans' = outcome
    /\ tkres' = TaskResult(tkargs.task, outcome)
    /\ tkpc' = TaskResult(tkargs.task, outcome).kind
    /\ UNCHANGED <<tkargs, tkreq>>
    /\ UNCHANGED <<gmVars, txVars, tsVars, svVars>>

TaskNext ==
    \/ \E task \in Tasks, token \in Tokens : TaskCall(task, token)
    \/ \E outcome \in TaskOutcomes : TaskSettles(outcome)

TaskSpec == Init /\ [][TaskNext]_vars

(***************************************************************************)
(* executeToolServer (lines 404-500): the route lookup, the URL and the    *)
(* request.  A string is a sequence of fragments, the characters of the    *)
(* inputs being fragments of one character.                                *)
(***************************************************************************)
Letters ==
    {"a", "b", "c", "d", "e", "f", "g", "h", "i", "j", "k", "l", "m",
     "n", "o", "p", "q", "r", "s", "t", "u", "v", "w", "x", "y", "z"}

\* Characters encodeURIComponent leaves as they are.
UriUnreserved == Letters \cup Digits \cup {"-", "_", ".", "!", "~", "*", APOS, "(", ")"}

\* Characters the serializer of URLSearchParams leaves as they are.
FormUnreserved == Letters \cup Digits \cup {"*", "-", ".", "_"}

\* The percent-encoding of the other characters of the inputs.
PercentCode ==
    (" " :> <<"%", "2", "0">>) @@ ("!" :> <<"%", "2", "1">>) @@
    ("&" :> <<"%", "2", "6">>) @@ ("/" :> <<"%", "2", "F">>) @@
    ("=" :> <<"%", "3", "D">>) @@ ("?" :> <<"%", "3", "F">>) @@
    ("{" :> <<"%", "7", "B">>) @@ ("}" :> <<"%", "7", "D">>)

\* String(v) of a string, a number or a literal.
String(v) == v.v

RECURSIVE encodeURIComponent(_)
encodeURIComponent(str) ==
    IF str = << >> THEN << >>
    ELSE (IF Head(str) \in UriUnreserved THEN <<Head(str)>> ELSE PercentCode[Head(str)])
         \o encodeURIComponent(Tail(str))

\* application/x-www-form-urlencoded serialization of one name or value.
RECURSIVE FormEncode(_)
FormEncode(str) ==
    IF str = << >> THEN << >>
    ELSE (IF Head(str) \in FormUnreserved THEN <<Head(str)>>
          ELSE IF Head(str) = " " THEN <<"+">>
          ELSE PercentCode[Head(str)])
         \o FormEncode(Tail(str))

\* new URLSearchParams(pairs).toString()  (lines 459-461)
RECURSIVE URLSearchParams(_)
URLSearchParams(pairs) ==
    IF pairs = << >> THEN << >>
    ELSE FormEncode(Head(pairs).k) \o <<"=">> \o FormEncode(String(Head(pairs).x))
         \o (IF Tail(pairs) = << >> THEN << >> ELSE <<"&">> \o URLSearchParams(Tail(pairs)))

\* str.replace(new RegExp(pat, 'g'), rep) for a pattern {name} whose name is
\* made of letters, which the expression matches literally.
RECURSIVE ReplaceAll(_, _, _)
ReplaceAll(str, pat, rep) ==
    IF Len(str) < Len(pat) THEN str
    ELSE IF SubSeq(str, 1, Len(pat)) = pat
         THEN rep \o ReplaceAll(SubSeq(str, Len(pat) + 1, Len(str)), pat, rep)
         ELSE <<Head(str)>> \o ReplaceAll(Tail(str), pat, rep)

\* httpMethod.toUpperCase() and httpMethod.toLowerCase() on the method keys.
toUpperCase(m) ==
    CASE m \in {"get", "GET"} -> "GET"
      [] m \in {"post", "POST"} -> "POST"
      [] m = "put" -> "PUT"
      [] m = "patch" -> "PATCH"
      [] m = "delete" -> "DELETE"

toLowerCase(m) ==
    CASE m = "GET" -> "get"
      [] m = "POST" -> "post"
      [] OTHER -> m

\* { error }  (line 498)
ErrorValue(message) == ObjOf(KeyError, Str(message))

\* Lines 414-416: the positions of the paths one of whose methods declares
\* the operation.
MatchingRoutes(paths, name) ==
    {i \in DOMAIN paths :
        \E j \in DOMAIN paths[i].methods : paths[i].methods[j].operation.operationId = name}

\* The supplied arguments the operation declares, wherever it declares them.
RECURSIVE DeclaredParamsAnywhere(_, _, _, _)
DeclaredParamsAnywhere(parameters, params, paramIn, seen) ==
    IF parameters = << >> THEN << >>
    ELSE LET param == Head(parameters)
             take == HasMember(params, param.name) /\ param.name \notin seen
         IN  (IF take THEN <<[k |-> param.name, x |-> Member(params, param.name)]>>
              ELSE << >>)
             \o DeclaredParamsAnywhere(Tail(parameters), params, paramIn,
                                       IF take THEN seen \cup {param.name} ELSE seen)

\* Lines 438-450: the supplied arguments the operation declares in the
\* given place, in the order of their first declaration.
RECURSIVE DeclaredParams(_, _, _, _)
DeclaredParams(parameters, params, paramIn, seen) ==
    IF parameters = << >> THEN << >>
    ELSE LET param == Head(parameters)
             take == /\ param.in = paramIn
                     /\ HasMember(params, param.name)
                     /\ param.name \notin seen
         IN  (IF take THEN <<[k |-> param.name, x |-> Member(params, param.name)]>>
              ELSE << >>)
             \o DeclaredParams(Tail(parameters), params, paramIn,
                               IF take THEN seen \cup {param.name} ELSE seen)

\* Lines 454-456: each {key} replaced by the encoded value.
RECURSIVE SubstitutePath(_, _)
SubstitutePath(finalUrl, pathParams) ==
    IF pathParams = << >> THEN finalUrl
    ELSE SubstitutePath(
            ReplaceAll(finalUrl, <<"{">> \o Head(pathParams).k \o <<"}">>,
                       encodeURIComponent(String(Head(pathParams).x))),
            Tail(pathParams))

\* Lines 452-463.
FinalUrl(url, routePath, pathParams, queryParams) ==
    SubstitutePath(url \o routePath, pathParams)
    \o (IF queryParams # << >> THEN <<"?">> \o URLSearchParams(queryParams) ELSE << >>)

\* Lines 474-477.
ToolHeaders(token) ==
    IF token # << >>
    THEN [contentType |-> "application/json", authorization |-> Bearer \o token]
    ELSE [contentType |-> "application/json"]

\* operation.requestBody && operation.requestBody.content  (line 465)
TakesArgsAsBody(operation) ==
    "requestBody" \in DOMAIN operation /\ "content" \in DOMAIN operation.requestBody

\* Line 484: the methods that attach a body.
AttachesBody(httpMethod, operation) ==
    toLowerCase(httpMethod) \in {"post", "put", "patch"} /\ "requestBody" \in DOMAIN operation

\* Lines 414-422: the first path one of whose methods declares the
\* operation.
MatchingRoute(paths, name) ==
    paths[CHOOSE i \in MatchingRoutes(paths, name) :
             \A j \in MatchingRoutes(paths, name) : i <= j]

\* Lines 424-432: the first method of the path that declares the operation.
MethodEntry(route, name) ==
    route.methods[CHOOSE j \in DOMAIN route.methods :
                     /\ route.methods[j].operation.operationId = name
                     /\ \A h \in 1 .. (j - 1) :
                           route.methods[h].operation.operationId # name]

\* No route declares the operation, and the base URL is requested instead.
NoMatchingRouteFetchesBase(token, url, name) ==
    [request |-> [url |-> url, method |-> "GET", headers |-> ToolHeaders(token)]]

\* Lines 418-420: no route declares the operation.
NoMatchingRoute(token, url, name) ==
    [error |-> <<"No matching route found for operationId: ", name>>]

\* Lines 413-486: the request executeToolServer is about to send, or the
\* message of the error thrown before any request.
ExecutePlan(token, url, name, params, serverData) ==
    IF "paths" \notin DOMAIN serverData.openapi
    THEN [error |-> <<"Cannot convert undefined or null to object">>]
    ELSE IF MatchingRoutes(serverData.openapi.paths, name) = {}
         THEN NoMatchingRoute(token, url, name)
         ELSE LET route == MatchingRoute(serverData.openapi.paths, name)
                  entry == MethodEntry(route, name)
                  operation == entry.operation
                  parameters == IF "parameters" \in DOMAIN operation
                                THEN operation.parameters ELSE << >>
                  pathParams == DeclaredParams(parameters, params, "path", {})
                  queryParams == DeclaredParams(parameters, params, "query", {})
                  bodyParams == IF TakesArgsAsBody(operation) THEN params ELSE Obj(<< >>)
                  common == [url |-> FinalUrl(url, route.path, pathParams, queryParams),
                             method |-> toUpperCase(entry.method),
                             headers |-> ToolHeaders(token)]
              IN  [request |->
                      IF AttachesBody(entry.method, operation)
                      THEN [body |-> JSONstringify(bodyParams)] @@ common
                      ELSE common]

\* `${res.status}`: the decimal digits of the status.
RECURSIVE Decimal(_)
Decimal(n) ==
    LET digit == <<"0", "1", "2", "3", "4", "5", "6", "7", "8", "9">>[(n % 10) + 1]
    IN  IF n < 10 THEN <<digit>> ELSE Decimal(n \div 10) \o <<digit>>

\* res.ok
ResOk(status) == status \in 200 .. 299

\* executeToolServer decoding the body of every answer, whatever its status.
ExecuteResultDecodingErrors(outcome) ==
    IF outcome.kind = "network" THEN ErrorValue(<<"Failed to fetch">>)
    ELSE IF JSONparse(outcome.text).ok
         THEN JSONparse(outcome.text).val
         ELSE ErrorValue(<<"Unexpected token in JSON">>)

\* Lines 488-499: the value executeToolServer resolves to once the fetch
\* has settled.
ExecuteResult(outcome) ==
    IF outcome.kind = "network" THEN ErrorValue(<<"Failed to fetch">>)
    ELSE IF ~ResOk(outcome.status)
         THEN ErrorValue(<<"HTTP error! Status: ">> \o Decimal(outcome.status)
                         \o <<". Message: ">> \o outcome.text)
         ELSE IF JSONparse(outcome.text).ok
              THEN JSONparse(outcome.text).val
              ELSE ErrorValue(<<"Unexpected token in JSON">>)

(***************************************************************************)
(* getToolServerData (lines 323-366).                                      *)
(***************************************************************************)
\* url.toLowerCase() on the characters of the URLs.
UrlLowerCase(url) ==
    LET lower == ("Y" :> "y") @@ ("A" :> "a") @@ ("M" :> "m") @@ ("L" :> "l")
    IN  [i \in DOMAIN url |-> IF url[i] \in DOMAIN lower THEN lower[url[i]] ELSE url[i]]

endsWith(str, suffix) ==
    /\ Len(suffix) <= Len(str)
    /\ SubSeq(str, Len(str) - Len(suffix) + 1, Len(str)) = suffix

\* Line 335.
IsYamlUrl(url) ==
    \/ endsWith(UrlLowerCase(url), <<".", "y", "a", "m", "l">>)
    \/ endsWith(UrlLowerCase(url), <<".", "y", "m", "l">>)

\* parse(text) of the yaml package on the texts of the model: a JSON text
\* is a YAML flow document, an empty text is null, a text without flow
\* indicators is a plain scalar, and an unfinished flow collection is an
\* error.
YamlParse(text) ==
    IF JSONparse(text).ok THEN JSONparse(text)
    ELSE IF text = << >> THEN [ok |-> TRUE, val |-> JsNull]
    ELSE IF \E i \in DOMAIN text : text[i] \in {"{", "}", "[", "]", DQ} THEN Fail
    ELSE [ok |-> TRUE, val |-> Str(text)]

\* The .then of lines 334-343 that passes a non-2xx answer on as a document.
ThenResolveIgnoringStatus(url, outcome) ==
    IF outcome.kind = "network" THEN Raises(JsError("TypeError: Failed to fetch"))
    ELSE IF IsYamlUrl(url)
         THEN IF YamlParse(outcome.text).ok
              THEN Yields(YamlParse(outcome.text).val)
              ELSE Raises(JsError("YAMLParseError"))
         ELSE IF JSONparse(outcome.text).ok
              THEN Yields(JSONparse(outcome.text).val)
              ELSE Raises(JsError("SyntaxError: Unexpected token"))

\* The .then of lines 334-343.
ThenResolve(url, outcome) ==
    IF outcome.kind = "network" THEN Raises(JsError("TypeError: Failed to fetch"))
    ELSE IF IsYamlUrl(url)
         THEN IF ~ResOk(outcome.status) THEN Raises(Str(outcome.text))
              ELSE IF YamlParse(outcome.text).ok
                   THEN Yields(YamlParse(outcome.text).val)
                   ELSE Raises(JsError("YAMLParseError"))
         ELSE IF ~JSONparse(outcome.text).ok
              THEN Raises(JsError("SyntaxError: Unexpected token"))
              ELSE IF ~ResOk(outcome.status)
                   THEN Raises(JSONparse(outcome.text).val)
                   ELSE Yields(JSONparse(outcome.text).val)

\* The .catch of lines 344-352.
CatchResolve(err) ==
    IF InRaises(err)
    THEN Raises(JsError("TypeError: Cannot use 'in' operator"))
    ELSE [throws |-> FALSE, val |-> JsNull,
          error |-> IF HasMember(err, KeyDetail) THEN Member(err, KeyDetail) ELSE err]

KeyInfo == <<"i", "n", "f", "o">>
KeyPaths == <<"p", "a", "t", "h", "s">>

\* What convertOpenApiToToolPayload(res) can do: it scans the paths of the
\* document, and nothing is known of it on a value that has none.
ConvertOutcomes(res) ==
    IF HasMember(res, KeyPaths) THEN {"returns"} ELSE {"returns", "throws"}

\* The payload convertOpenApiToToolPayload derives from the document.
ToolPayload(res) == [t |-> "specs", v |-> res]

\* Lines 334-352: res and error once the .then and the .catch have run, or
\* the TypeError of the .catch handler.
CaughtResolve(t) ==
    IF t.throws THEN CatchResolve(t.err)
    ELSE [throws |-> FALSE, val |-> t.val, error |-> JsNull]

\* The conversion is reached: nothing was thrown before it.
ReachesConvert(c) == ~c.throws /\ ~JsTruthy(c.error) /\ ~Nullish(c.val)

\* Lines 354-365: what getToolServerData throws or returns.
FinishResolve(c, converts) ==
    IF c.throws THEN Thrown(c.err)
    ELSE IF JsTruthy(c.error) THEN Thrown(c.error)
    ELSE IF Nullish(c.val)
         THEN Thrown(JsError("TypeError: Cannot read properties of null (reading 'info')"))
         ELSE IF converts = "throws"
              THEN Thrown(JsError("convertOpenApiToToolPayload"))
              ELSE Returned([openapi |-> c.val,
                             info |-> Get(c.val, KeyInfo),
                             specs |-> ToolPayload(c.val)])

\* Lines 326-333.
ResolveRequest(token, url) ==
    [url |-> url, method |-> "GET",
     headers |-> [accept |-> "application/json"] @@ ToolHeaders(token)]

(***************************************************************************)
(* The tool-server operations as a state machine: each has one fetch.      *)
(* The document executeToolServer is given has its paths, and the methods  *)
(* of a path, as sequences in key order.                                   *)
(***************************************************************************)
KId == <<"i", "d">>
KVerbose == <<"v", "e", "r", "b", "o", "s", "e">>
KNote == <<"n", "o", "t", "e">>

JsonContent == [content |-> "application/json"]

GetItem ==
    [operationId |-> "get_item",
     parameters |-> <<[name |-> KId, in |-> "path"], [name |-> KVerbose, in |-> "query"]>>]
PutItem ==
    [operationId |-> "put_item",
     parameters |-> <<[name |-> KId, in |-> "path"]>>,
     requestBody |-> [ref |-> "#/components/requestBodies/Item"]]
PatchItem ==
    [operationId |-> "patch_item",
     parameters |-> <<[name |-> KId, in |-> "path"]>>,
     requestBody |-> JsonContent]
DeleteItem ==
    [operationId |-> "delete_item",
     parameters |-> <<[name |-> KId, in |-> "path"]>>,
     requestBody |-> JsonContent]
CreateItem ==
    [operationId |-> "create_item",
     parameters |-> <<[name |-> KVerbose, in |-> "query"], [name |-> KId, in |-> "header"]>>,
     requestBody |-> JsonContent]
Ping == [operationId |-> "ping"]

\* /items/{id}
ItemPath == <<"/", "i", "t", "e", "m", "s", "/", "{", "i", "d", "}">>

PathItems ==
    {[path |-> ItemPath,
      methods |-> <<[method |-> "get", operation |-> GetItem],
                    [method |-> "put", operation |-> PutItem],
                    [method |-> "patch", operation |-> PatchItem],
                    [method |-> "delete", operation |-> DeleteItem]>>],
     [path |-> <<"/", "i", "t", "e", "m", "s">>,
      methods |-> <<[method |-> "post", operation |-> CreateItem]>>],
     [path |-> <<"/", "p", "i", "n", "g">>,
      methods |-> <<[method |-> "POST", operation |-> Ping]>>],
     [path |-> <<"/", "{", "i", "d", "}">> \o ItemPath,
      methods |-> <<[method |-> "get", operation |-> GetItem]>>]}

\* serverData: documents of up to MaxPaths distinct paths, and a document
\* without paths.
ServerDatas ==
    {[openapi |-> [paths |-> ps]] :
        ps \in {q \in SeqsUpTo(PathItems, MaxPaths) :
                  \A i, j \in DOMAIN q : i # j => q[i].path # q[j].path}}
    \cup {[openapi |-> [info |-> "no paths"]]}

OperationNames ==
    {"get_item", "put_item", "patch_item", "delete_item", "create_item", "ping", "nope"}

\* params: {}, {id: "42", verbose: "true"}, {id: 42, note: "z"} and
\* {verbose: "a b!", id: "a/b", note: "z"}.
ParamsSets ==
    {Obj(<< >>),
     Obj(<<[k |-> KId, x |-> Str(<<"4", "2">>)],
           [k |-> KVerbose, x |-> Str(<<"t", "r", "u", "e">>)]>>),
     Obj(<<[k |-> KId, x |-> Num(<<"4", "2">>)], [k |-> KNote, x |-> Str(<<"z">>)]>>),
     Obj(<<[k |-> KVerbose, x |-> Str(<<"a", " ", "b", "!">>)],
           [k |-> KId, x |-> Str(<<"a", "/", "b">>)],
           [k |-> KNote, x |-> Str(<<"z">>)]>>)}

\* The url argument of executeToolServer.
ToolBase == <<"h", "t", "t", "p", ":", "/", "/", "s">>

\* The url argument of getToolServerData.
DocumentUrls ==
    {ToolBase \o <<"/", "o", ".", "j", "s", "o", "n">>,
     ToolBase \o <<"/", "o", ".", "y", "a", "m", "l">>,
     ToolBase \o <<"/", "o", ".", "Y", "M", "L">>}

Statuses == {200, 404, 500}

\* Body texts of a tool server: none, plain text, JSON error bodies with a
\* detail, an empty detail and no detail, a JSON string, null, a document,
\* and an unfinished object.
BodyTexts ==
    {<< >>, <<"o", "o", "p", "s">>, <<"n", "u", "l", "l">>, <<"{", DQ, "a", DQ, ":">>,
     JSONstringify(Str(<<"o", "o", "p", "s">>)),
     JSONstringify(ObjOf(KeyDetail, Str(<<"n", "o">>))),
     JSONstringify(ObjOf(KeyDetail, Str(<< >>))),
     JSONstringify(ObjOf(KeyError, Str(<<"n", "o">>))),
     JSONstringify(Obj(<<[k |-> KeyInfo, x |-> Obj(<< >>)], [k |-> KeyPaths, x |-> Obj(<< >>)]>>))}

ToolOutcomes ==
    {[kind |-> "network"]}
    \cup {[kind |-> "http", status |-> st, text |-> tx] : st \in Statuses, tx \in BodyTexts}

\* executeToolServer is called (lines 411-488): it returns an error value
\* at once, or sends its request.
ExecuteCall(token, name, params, serverData) ==
    /\ tspc = "idle"
    /\ tsargs' = [fn |-> "execute", token |-> token, url |-> ToolBase, name |-> name,
                   params |-> params, serverData |-> serverData]
    /\ LET plan == ExecutePlan(token, ToolBase, name, params, serverData)
       IN  IF "error" \in DOMAIN plan
           THEN /\ tspc' = "returned"
                /\ tsres' = Returned(ErrorValue(plan.error))
                /\ UNCHANGED tsreq
           ELSE /\ tspc' = "sent"
                /\ tsreq' = plan.request
                /\ UNCHANGED tsres
    /\ UNCHANGED tsans
    /\ UNCHANGED <<gmVars, txVars, tkVars, svVars>>

\* The fetch of executeToolServer settles (lines 488-499).
ExecuteSettles(outcome) ==
    /\ tspc = "sent"
    /\ tsargs.fn = "execute"
    /\ tsans' = outcome
    /\ tsres' = Returned(ExecuteResult(outcome))
    /\ tspc' = "returned"
    /\ UNCHANGED <<tsargs, tsreq>>
    /\ UNCHANGED <<gmVars, txVars, tkVars, svVars>>

\* getToolServerData is called and sends its request (line 326).
ResolveCall(token, url) ==
    /\ tspc = "idle"
    /\ tspc' = "sent"
    /\ tsargs' = [fn |-> "resolve", token |-> token, url |-> url]
    /\ tsreq' = ResolveRequest(token, url)
    /\ UNCHANGED <<tsans, tsres>>
    /\ UNCHANGED <<gmVars, txVars, tkVars, svVars>>

\* The fetch of getToolServerData settles (lines 334-365), with every
\* outcome convertOpenApiToToolPayload can have when it is reached.
ResolveSettles(outcome) ==
    /\ tspc = "sent"
    /\ tsargs.fn = "resolve"
    /\ tsans' = outcome
    /\ \E t \in {ThenResolve(tsargs.url, outcome)} :
       \E c \in {CaughtResolve(t)} :
       \E converts \in (IF ReachesConvert(c) THEN ConvertOutcomes(c.val) ELSE {"returns"}) :
       \E result \in {FinishResolve(c, converts)} :
          /\ tsres' = result
          /\ tspc' = result.kind
    /\ UNCHANGED <<tsargs, tsreq>>
    /\ UNCHANGED <<gmVars, txVars, tkVars, svVars>>

ToolNext ==
    \/ \E token \in Tokens, name \in OperationNames, params \in ParamsSets,
          serverData \in ServerDatas : ExecuteCall(token, name, params, serverData)
    \/ \E outcome \in ToolOutcomes : ExecuteSettles(outcome)
    \/ \E token \in Tokens, url \in DocumentUrls : ResolveCall(token, url)
    \/ \E outcome \in ToolOutcomes : ResolveSettles(outcome)

ToolSpec == Init /\ [][ToolNext]_vars

(***************************************************************************)
(* getToolServersData (lines 368-402): one getToolServerData per enabled   *)
(* server, all awaited together.                                           *)
(***************************************************************************)
\* str.includes(sub)
includes(str, sub) ==
    \E i \in 0 .. (Len(str) - Len(sub)) : SubSeq(str, i + 1, i + Len(sub)) = sub

\* str.startsWith(prefix)
startsWith(str, prefix) ==
    Len(prefix) <= Len(str) /\ SubSeq(str, 1, Len(prefix)) = prefix

\* localStorage.token
SessionToken == <<"l", "s">>

\* server?.config?.enable  (line 372)
ServerEnabled(server) == "config" \in DOMAIN server /\ server.config.enable

\* The first argument of getToolServerData (line 375).
ServerToken(server) ==
    IF server.auth_type = "bearer" THEN server.key ELSE SessionToken

\* The second argument of getToolServerData (lines 376-378).
ServerDocumentUrl(server) ==
    IF includes(server.path, <<":", "/", "/">>)
    THEN server.path
    ELSE server.url \o (IF startsWith(server.path, <<"/">>) THEN << >> ELSE <<"/">>)
         \o server.path

\* servers.filter(...).map(async ...) (lines 371-373): one promise for each
\* enabled server, in the order of servers, its request already sent.
\* server is a history field: the position in servers of the promise's server.
RECURSIVE MapEnabled(_, _)
MapEnabled(svs, i) ==
    IF i > Len(svs) THEN << >>
    ELSE (IF ServerEnabled(svs[i])
          THEN <<[server |-> i, state |-> "pending",
                  request |-> ResolveRequest(ServerToken(svs[i]),
                                             ServerDocumentUrl(svs[i]))]>>
          ELSE << >>) \o MapEnabled(svs, i + 1)

\* A callback without the .catch: the failure of getToolServerData rejects
\* its promise.
CatchServerErrorRethrows(req) == [state |-> "rejected", failed |-> TRUE] @@ req

\* The .catch of lines 379-388 and the missing return after line 398: the
\* callback of a server whose getToolServerData threw resolves to undefined.
\* failed is a history field.
CatchServerError(req) ==
    [state |-> "fulfilled", value |-> Undefined, failed |-> TRUE] @@ req

\* Lines 390-398: the bundle made of what getToolServerData returned.
\* origin is a history field: the position in servers of the bundle's server.
Bundle(server, data, i) ==
    [url |-> server.url, openapi |-> data.openapi, info |-> data.info,
     specs |-> data.specs, origin |-> i]

\* The callback of lines 373-399 once getToolServerData has returned or
\* thrown.
SettleServer(svs, req, result) ==
    IF result.kind = "thrown"
    THEN CatchServerError(req)
    ELSE [state |-> "fulfilled", failed |-> FALSE,
          value |-> Bundle(svs[req.server], result.val, req.server)] @@ req

\* .filter((server) => server) of line 401 on the values of the promises.
RECURSIVE FilterTruthy(_)
FilterTruthy(reqs) ==
    IF reqs = << >> THEN << >>
    ELSE (IF reqs[1].value = Undefined THEN << >> ELSE <<reqs[1].value>>)
         \o FilterTruthy(Tail(reqs))

\* The entries of servers: a url, a path that is relative (with auth by the
\* server's key), rooted or an absolute URL (with auth by the session), and
\* a config that enables it; one entry is disabled and one has no config.
ServerPaths ==
    {<<"o", ".", "j", "s", "o", "n">>, <<"/", "o", ".", "y", "m", "l">>,
     <<"h", "t", "t", "p", ":", "/", "/", "x", "/", "o", ".", "j", "s", "o", "n">>}

ServerEntries ==
    LET relative == <<"o", ".", "j", "s", "o", "n">>
        core == {[url |-> ToolBase, path |-> path, key |-> <<"s", "k">>,
                  auth_type |-> IF path = relative THEN "bearer" ELSE "session"] :
                    path \in ServerPaths}
        first == CHOOSE c \in core : c.path = relative
    IN  {("config" :> [enable |-> TRUE]) @@ c : c \in core}
        \cup {("config" :> [enable |-> FALSE]) @@ first, first}

ServerLists == SeqsUpTo(ServerEntries, MaxServers)

\* What the fetch of one server's document settles with: a network failure,
\* the document, the body null, or an error answer with a detail.
ServerOutcomes ==
    {[kind |-> "network"],
     [kind |-> "http", status |-> 200,
      text |-> JSONstringify(Obj(<<[k |-> KeyInfo, x |-> Obj(<< >>)],
                                   [k |-> KeyPaths, x |-> Obj(<< >>)]>>))],
     [kind |-> "http", status |-> 200, text |-> <<"n", "u", "l", "l">>],
     [kind |-> "http", status |-> 500,
      text |-> JSONstringify(ObjOf(KeyDetail, Str(<<"n", "o">>)))]}

\* getToolServersData(i18n, servers) is called: every enabled server's
\* document is requested (lines 369-378) and Promise.all is awaited.
ServersCall(svs) ==
    /\ svpc = "idle"
    /\ svpc' = "all"
    /\ servers' = svs
    /\ svreqs' = MapEnabled(svs, 1)
    /\ UNCHANGED <<svorder, svres>>
    /\ UNCHANGED <<gmVars, txVars, tkVars, tsVars>>

\* The fetch of the promise at position k settles: getToolServerData
\* returns or throws (lines 334-365) and the callback finishes (lines 379-399).
ServerSettles(k, outcome) ==
    /\ svpc = "all"
    /\ k \in DOMAIN svreqs
    /\ svreqs[k].state = "pending"
    /\ \E t \in {ThenResolve(svreqs[k].request.url, outcome)} :
       \E c \in {CaughtResolve(t)} :
       \E converts \in (IF ReachesConvert(c) THEN ConvertOutcomes(c.val) ELSE {"returns"}) :
       \E result \in {FinishResolve(c, converts)} :
          svreqs' = [svreqs EXCEPT ![k] = SettleServer(servers, svreqs[k], result)]
    /\ svorder' = Append(svorder, k)
    /\ UNCHANGED <<svpc, servers, svres>>
    /\ UNCHANGED <<gmVars, txVars, tkVars, tsVars>>

\* Promise.all has settled (line 370): the values are filtered and returned
\* (line 401), or its rejection is thrown.
ServersReturn ==
    /\ svpc = "all"
    /\ AllState(svreqs) # "pending"
    /\ IF AllState(svreqs) = "fulfilled"
       THEN /\ svres' = FilterTruthy(svreqs)
            /\ svpc' = "returned"
       ELSE /\ svpc' = "thrown"
            /\ UNCHANGED svres
    /\ UNCHANGED <<servers, svreqs, svorder>>
    /\ UNCHANGED <<gmVars, txVars, tkVars, tsVars>>

ServersNext ==
    \/ \E svs \in ServerLists : ServersCall(svs)
    \/ \E k \in 1 .. MaxServers, outcome \in ServerOutcomes : ServerSettles(k, outcome)
    \/ ServersReturn

ServersSpec == Init /\ [][ServersNext]_vars

(***************************************************************************)
(* Properties of the extraction and of the list decoders.                  *)
(***************************************************************************)
HasChar(str, cs) == \E i \in DOMAIN str : str[i] \in cs

QuoteVariants == {APOS, LSQUO, RSQUO, BACKTICK}

\* The text is one well-formed JSON object.
WellFormedObject(str) == JSONparse(str).ok /\ JSONparse(str).val.t = "obj"

\* A text with no '{' or no '}' yields nothing.
AbsentWithoutBraces ==
    (~HasChar(content, {"{"}) \/ ~HasChar(content, {"}"})) => ~out.ok

\* C8 as stated: the extraction returns the embedded object of every text
\* made of one well-formed JSON object surrounded by arbitrary prose, and
\* nothing for a text with no '{' or no '}'.
C8_ExtractsFromArbitraryProse ==
    op = "extract" =>
        /\ WellFormedObject(parts.mid) => out = JSONparse(parts.mid)
        /\ AbsentWithoutBraces

\* C8, amended: the extraction returns the embedded object of every text
\* made of one well-formed JSON object that holds none of ' ‘ ’ `,
\* surrounded by prose that holds no '{' and no '}', and nothing for a text
\* with no '{' or no '}'.
C8_ExtractsFromBraceFreeProse ==
    op = "extract" =>
        /\ ( /\ WellFormedObject(parts.mid)
             /\ ~HasChar(parts.mid, QuoteVariants)
             /\ ~HasChar(parts.pre \o parts.post, {"{", "}"}) )
               => out = JSONparse(parts.mid)
        /\ AbsentWithoutBraces

\* The object {"tags": ["a","b"]} was extracted from between "Sure! " and
\* a trailing character.
C8_Witness ==
    /\ op = "extract"
    /\ parts.pre = <<"S", "u", "r", "e", "!", " ">>
    /\ parts.mid = TagsAB
    /\ parts.post = <<"x">>
    /\ out.ok
    /\ out.val = Obj(<<[k |-> KeyTags, x |-> Arr(<<Str(<<"a">>), Str(<<"b">>)>>)]>>)

\* C9 as stated: an object obtained by extraction, serialized and extracted
\* again, comes back equal.
C9_ExtractionIdempotent ==
    (op = "reextract" /\ out.first.val.t = "obj") => out.second = out.first

\* C9, amended: an object obtained by extraction, no key or string of which
\* holds one of ' ‘ ’ `, comes back equal when serialized and extracted
\* again.
C9_IdempotentWithoutQuoteVariants ==
    ( /\ op = "reextract"
      /\ out.first.val.t = "obj"
      /\ ~HasChar(JSONstringify(out.first.val), QuoteVariants) )
        => out.second = out.first

\* A non-empty object extracted from a text with prose before it came back
\* equal.
C9_Witness ==
    /\ op = "reextract"
    /\ parts.pre # << >>
    /\ out.first.val.t = "obj"
    /\ out.first.val.v # << >>
    /\ out.second = out.first

\* The list under key in the object extracted from the content, the empty
\* list when there is none.
ListUnder(key) ==
    LET x == ExtractObject(content)
    IN  IF x.ok /\ HasMember(x.val, key) /\ Member(x.val, key).t = "arr"
        THEN Member(x.val, key)
        ELSE Arr(<< >>)

\* C10: generateTags and generateFollowUps return the value under their key
\* when the extracted object holds a list there and the empty list in every
\* other case; Sure! {"tags": ["a","b"]} decodes to ["a","b"], and a content
\* with no braces to [].
C10_ListOrEmpty ==
    /\ op = "tags" => out = ListUnder(KeyTags)
    /\ op = "follow_ups" => out = ListUnder(KeyFollowUps)
    /\ (op = "tags" /\ content = <<"S", "u", "r", "e", "!", " ">> \o TagsAB)
          => out = Arr(<<Str(<<"a">>), Str(<<"b">>)>>)
    /\ (op \in {"tags", "follow_ups"} /\ ~HasChar(content, {"{", "}"}))
          => out = Arr(<< >>)

\* generateTags met an object whose tags member is not a list and returned
\* the empty list.
C10_Witness ==
    /\ op = "tags"
    /\ WellFormedObject(parts.mid)
    /\ HasMember(JSONparse(parts.mid).val, KeyTags)
    /\ Member(JSONparse(parts.mid).val, KeyTags) = Str(<<"a">>)
    /\ ExtractObject(content).ok
    /\ out = Arr(<< >>)

\* The slice of the content from its first '{' to its last '}' is a JSON
\* object.
ObjectFound ==
    LET jsonStartIndex == indexOf(content, "{")
        jsonEndIndex == lastIndexOf(content, "}")
    IN  /\ jsonStartIndex # -1
        /\ jsonStartIndex <= jsonEndIndex
        /\ WellFormedObject(SubSeq(content, jsonStartIndex + 1, jsonEndIndex + 1))

\* The object found in the content.
FoundObject ==
    JSONparse(SubSeq(content, indexOf(content, "{") + 1,
                     lastIndexOf(content, "}") + 1)).val

\* C11: for every content, generateQueries returns the one-element list
\* holding the content when no JSON object is found in it, the empty list
\* when an object is found that has no queries key, and the list under
\* queries when there is one.
C11_QueriesOrContent ==
    op = "queries" =>
        /\ ~ObjectFound => out = Arr(<<Str(content)>>)
        /\ (ObjectFound /\ ~HasMember(FoundObject, KeyQueries)) => out = Arr(<< >>)
        /\ ( /\ ObjectFound
             /\ HasMember(FoundObject, KeyQueries)
             /\ Member(FoundObject, KeyQueries).t = "arr" )
               => out = Member(FoundObject, KeyQueries)

(***************************************************************************)
(* Properties of getModels.                                                *)
(***************************************************************************)
\* The build with connections has returned.
Built == pc = "done" /\ ~connections.isNull /\ ~base

\* The base catalog followed by every connection's entries, in the order
\* in which the build writes them into the map.
AllEntries == fetched \o MapDirect(LocalModels(connections, requests, Len(requests)))

HasId(ms, id) == \E i \in DOMAIN ms : ms[i].id = id

\* The request at position k was sent and its endpoint failed.
Failed(k) == "answer" \in DOMAIN requests[k] /\ requests[k].answer = "error"

\* Connection idx has a configuration with enable = false.
Disabled(idx) ==
    idx \in DOMAIN connections.configs /\ ~connections.configs[idx].enable

\* C1: after a build with connections every id occurs at most once in the
\* result, every id written occurs, and the entry kept for an id is the last
\* one written for it in base-then-connections order.
C1_LastWriteWins ==
    Built =>
        /\ \A i, j \in DOMAIN models : models[i].id = models[j].id => i = j
        /\ \A j \in DOMAIN AllEntries : HasId(models, AllEntries[j].id)
        /\ \A i \in DOMAIN models :
              \E j \in DOMAIN AllEntries :
                  /\ AllEntries[j] = models[i]
                  /\ \A h \in DOMAIN AllEntries :
                        h > j => AllEntries[h].id # models[i].id

\* An id of the base catalog is also contributed by a connection, and the
\* entry returned for it is the connection's.
C1_Witness ==
    /\ Built
    /\ \E b \in DOMAIN fetched, i \in DOMAIN models :
          /\ models[i].id = fetched[b].id
          /\ "direct" \in DOMAIN models[i]
          /\ models[i] # fetched[b]

\* C2: when the listing request of a connection fails, its promise is
\* fulfilled with an empty list, the build never throws, and the result
\* holds every id of the base catalog and of every other connection's
\* entries and no entry of the failed connection.
C2_FailureIsolated ==
    (\E k \in DOMAIN requests : Failed(k)) =>
        /\ pc # "thrown"
        /\ \A k \in DOMAIN requests :
              Failed(k) => /\ requests[k].state = "fulfilled"
                           /\ requests[k].value.data = << >>
        /\ pc = "done" =>
              /\ \A b \in DOMAIN fetched : HasId(models, fetched[b].id)
              /\ \A j \in DOMAIN requests :
                    LET ms == ResponseModels(connections, requests[j].value, j - 1)
                    IN  \A e \in DOMAIN ms : HasId(models, ms[e].id)
              /\ \A k \in DOMAIN requests, i \in DOMAIN models :
                    (Failed(k) /\ "origin" \in DOMAIN models[i])
                        => models[i].origin # requests[k].conn

\* One listing failed, another connection listed a model, the base catalog
\* is not empty, and the build returned.
C2_Witness ==
    /\ pc = "done"
    /\ fetched # << >>
    /\ \E k, j \in DOMAIN requests :
          /\ Failed(k)
          /\ j # k
          /\ "answer" \in DOMAIN requests[j]
          /\ requests[j].answer = "ok"
          /\ requests[j].value.data # << >>

\* C3: once a listing endpoint has turned out never to answer, the build
\* still returns.
C3_SilentEndpointDoesNotBlock == (pc = "all" /\ silent # {}) ~> (pc = "done")

\* C4: a connection configured with enable = false gets an already
\* fulfilled empty list, no request is sent for it, and no entry of the
\* result comes from it, whatever its model_ids.
C4_DisabledContributesNothing ==
    /\ \A k \in DOMAIN requests :
          Disabled(requests[k].conn) =>
              /\ requests[k].state = "fulfilled"
              /\ requests[k].value.data = << >>
              /\ ~requests[k].sent
    /\ pc = "done" =>
          \A i \in DOMAIN models :
              "origin" \in DOMAIN models[i] => ~Disabled(models[i].origin)

\* A build returned a non-empty result although one of its connections is
\* disabled with a non-empty allow-list.
C4_Witness ==
    /\ Built
    /\ models # << >>
    /\ \E idx \in DOMAIN connections.configs :
          Disabled(idx) /\ Len(connections.configs[idx].model_ids) > 0

\* C5: every entry a connection contributes carries that connection's index
\* as urlIdx and the prefix and tags of that connection's own configuration.
C5_OwnIndexPrefixAndTags ==
    pc = "done" =>
        \A i \in DOMAIN models :
            "origin" \in DOMAIN models[i] =>
                LET m == models[i]
                    cfg == ConfigAt(connections, m.origin)
                IN  /\ m.urlIdx = m.origin
                    /\ ("tags" \in DOMAIN m) = ("tags" \in DOMAIN cfg)
                    /\ "tags" \in DOMAIN cfg => m.tags = cfg.tags
                    /\ ("prefix_id" \in DOMAIN cfg)
                         = (m.id = "p" \o "." \o m.openai.id)

\* C6: an entry contributed by a connection whose configuration sets
\* prefix_id = p has id p.original, and has its original id otherwise.
C6_PrefixedId ==
    pc = "done" =>
        \A i \in DOMAIN models :
            "origin" \in DOMAIN models[i] =>
                LET m == models[i]
                    cfg == ConfigAt(connections, m.origin)
                IN  m.id = IF "prefix_id" \in DOMAIN cfg
                           THEN cfg.prefix_id \o "." \o m.openai.id
                           ELSE m.openai.id

\* C7: with base = true the result is the base catalog as fetched, and no
\* per-connection promise was made, whatever connections are.
C7_BaseOnlyUnmodified ==
    (pc = "done" /\ base) => (models = fetched /\ requests = << >>)

\* A base-only call with two configured connections returned a catalog
\* that lists one id twice.
C7_Witness ==
    /\ pc = "done"
    /\ base
    /\ ~connections.isNull
    /\ DOMAIN connections.configs = {0, 1}
    /\ Len(models) = 2
    /\ models[1].id = models[2].id

(***************************************************************************)
(* Properties of the task operations.                                      *)
(***************************************************************************)
TaskDone == tkpc \in {"returned", "thrown"}

\* C12: given a 2xx response, whatever its body (no choices field, an
\* empty choices list, a choice without message or content) and whatever
\* the content, each of the six task operations returns and never raises.
C12_NeverRaisesOn2xx ==
    (TaskDone /\ tkans.kind = "http" /\ tkans.ok) => tkpc = "returned"

\* C13: when the request of a task operation fails at network level, the
\* operation raises the transport error and returns no fallback value.
C13_TransportErrorRaised ==
    (TaskDone /\ tkans.kind = "network")
        => (tkpc = "thrown" /\ tkres.val = JsError("TypeError: Failed to fetch"))

\* C14: when a task endpoint answers with a non-2xx status, the operation
\* raises the detail field of the JSON error body when it has one and the
\* raw error body otherwise; it never returns normally.
C14_RemoteErrorRaised ==
    (TaskDone /\ tkans.kind = "http" /\ ~tkans.ok /\ tkans.body # NotJson)
        => /\ tkpc = "thrown"
           /\ tkres.val = IF HasMember(tkans.body, KeyDetail)
                          THEN Member(tkans.body, KeyDetail)
                          ELSE tkans.body

\* C15: a request carries an Authorization header exactly when the token is
\* non-empty, and its value is then "Bearer " followed by the token.
C15_BearerOnlyWithToken ==
    tkpc # "idle" =>
        /\ ("authorization" \in DOMAIN tkreq.headers) <=> (tkargs.token # << >>)
        /\ ("authorization" \in DOMAIN tkreq.headers)
              => tkreq.headers.authorization = Bearer \o tkargs.token

(***************************************************************************)
(* Properties of the tool-server operations.                               *)
(***************************************************************************)
Executing == tspc # "idle" /\ tsargs.fn = "execute"
Resolving == tspc # "idle" /\ tsargs.fn = "resolve"

\* Some (path, method) of the document declares the operation name.
Declared(serverData, name) ==
    /\ "paths" \in DOMAIN serverData.openapi
    /\ \E i \in DOMAIN serverData.openapi.paths :
          \E j \in DOMAIN serverData.openapi.paths[i].methods :
             serverData.openapi.paths[i].methods[j].operation.operationId = name

\* The value is an {error: message} object.
IsErrorValue(val) ==
    val.t = "obj" /\ Len(val.v) = 1 /\ val.v[1].k = KeyError /\ val.v[1].x.t = "str"

\* str holds sub as a run of consecutive fragments.
Contains(str, sub) ==
    \E i \in 0 .. (Len(str) - Len(sub)) : SubSeq(str, i + 1, i + Len(sub)) = sub

\* A request was sent for the operation.
Requested == Executing /\ tsreq # EmptyObject

\* The path and the (method, operation) entry the request was built from.
RequestedRoute == MatchingRoute(tsargs.serverData.openapi.paths, tsargs.name)
RequestedEntry == MethodEntry(RequestedRoute, tsargs.name)

\* C16: executeToolServer never raises, whatever the document, the name,
\* the arguments and the server do; when no (path, method) declares the
\* name it resolves to an {error: message} object without sending a
\* request.
C16_ExecuteNeverRaises ==
    Executing =>
        /\ tspc \in {"sent", "returned"}
        /\ tspc = "returned" => tsres.kind = "returned"
        /\ ~Declared(tsargs.serverData, tsargs.name)
              => /\ tspc = "returned"
                 /\ IsErrorValue(tsres.val)
                 /\ tsreq = EmptyObject
                 /\ tsans = EmptyObject

\* The name "nope" was looked up in a document of two paths, and an error
\* value naming it came back with no request sent.
C16_Witness ==
    /\ Executing
    /\ tspc = "returned"
    /\ tsargs.name = "nope"
    /\ "paths" \in DOMAIN tsargs.serverData.openapi
    /\ Len(tsargs.serverData.openapi.paths) = 2
    /\ tsreq = EmptyObject
    /\ tsres.val = ErrorValue(<<"No matching route found for operationId: ", "nope">>)

\* {id: "42", verbose: "true"}
ParamsIdVerbose ==
    Obj(<<[k |-> KId, x |-> Str(<<"4", "2">>)],
          [k |-> KVerbose, x |-> Str(<<"t", "r", "u", "e">>)]>>)

\* The argument is supplied and the operation declares it in the place.
Supplied(operation, key, place) ==
    /\ HasMember(tsargs.params, key)
    /\ "parameters" \in DOMAIN operation
    /\ \E i \in DOMAIN operation.parameters :
          operation.parameters[i].name = key /\ operation.parameters[i].in = place

\* C17: the URL requested is the base URL followed by the path template
\* with each {name} of a supplied declared path parameter replaced by its
\* percent-encoded value, followed by '?' and the URL-encoded supplied
\* declared query parameters when there is one; an argument the operation
\* declares neither as path nor as query parameter never appears; the
\* template /items/{id} with id "42" and verbose "true" gives
\* {base}/items/42?verbose=true.
C17_UrlFromDeclaredParams ==
    Requested =>
        LET operation == RequestedEntry.operation
            template == RequestedRoute.path
            url == tsreq.url
        IN  /\ SubSeq(url, 1, Len(ToolBase)) = ToolBase
            /\ (template = ItemPath /\ tsargs.name = "get_item"
                   /\ tsargs.params = ParamsIdVerbose)
                  => url = ToolBase \o <<"/", "i", "t", "e", "m", "s", "/", "4", "2", "?",
                                          "v", "e", "r", "b", "o", "s", "e", "=",
                                          "t", "r", "u", "e">>
            /\ Supplied(operation, KId, "path")
                  => /\ ~Contains(url, <<"{", "i", "d", "}">>)
                     /\ Member(tsargs.params, KId).v = <<"a", "/", "b">>
                           => /\ Contains(url, <<"/", "a", "%", "2", "F", "b">>)
                              /\ ~Contains(url, <<"a", "/", "b">>)
            /\ ~Supplied(operation, KId, "path")
                  => (Contains(template, <<"{", "i", "d", "}">>)
                        <=> Contains(url, <<"{", "i", "d", "}">>))
            /\ Contains(url, <<"?">>) <=> Supplied(operation, KVerbose, "query")
            /\ Supplied(operation, KVerbose, "query")
                  => \E i \in DOMAIN url :
                        /\ url[i] = "?"
                        /\ SubSeq(url, i + 1, Len(url))
                             = KVerbose \o <<"=">>
                               \o (IF Member(tsargs.params, KVerbose).v = <<"a", " ", "b", "!">>
                                   THEN <<"a", "+", "b", "%", "2", "1">>
                                   ELSE Member(tsargs.params, KVerbose).v)
            /\ ~Contains(url, KNote)
            /\ ~Contains(url, <<"z">>)
            /\ ~Supplied(operation, KId, "path")
                  => (~Contains(url, <<"4", "2">>) /\ ~Contains(url, <<"a", "%">>))

\* An operation declaring id as a header and verbose as a query parameter
\* was requested with id, verbose and note supplied: only verbose is in the
\* URL.
C17_Witness ==
    /\ Requested
    /\ tsargs.name = "create_item"
    /\ HasMember(tsargs.params, KNote)
    /\ HasMember(tsargs.params, KId)
    /\ tsreq.url = ToolBase \o <<"/", "i", "t", "e", "m", "s", "?", "v", "e", "r", "b", "o", "s", "e",
                                   "=", "a", "+", "b", "%", "2", "1">>

\* C18: a request carries a body only when the method is post, put or
\* patch and the operation declares a request body, and the body is then
\* the whole argument mapping serialized as JSON; a get or delete request
\* never carries a body.
C18_BodyIsAllArguments ==
    Requested =>
        LET operation == RequestedEntry.operation
            bodied == /\ toLowerCase(RequestedEntry.method) \in {"post", "put", "patch"}
                      /\ "requestBody" \in DOMAIN operation
        IN  /\ "body" \in DOMAIN tsreq => bodied
            /\ bodied => /\ "body" \in DOMAIN tsreq
                          /\ tsreq.body = JSONstringify(tsargs.params)
            /\ tsreq.method \in {"GET", "DELETE"} => "body" \notin DOMAIN tsreq

\* C19: when the tool server answers with a non-2xx status, the result is
\* an {error: message} object whose message holds the status code and the
\* body text as it is; the body is not decoded as JSON, and is not the
\* result.
C19_ErrorStatusBecomesErrorValue ==
    (Executing /\ tspc = "returned" /\ tsans # EmptyObject
        /\ tsans.kind = "http" /\ tsans.status \notin 200 .. 299)
        => /\ IsErrorValue(tsres.val)
           /\ Contains(tsres.val.v[1].x.v, tsans.text)
           /\ tsans.status = 404 => Contains(tsres.val.v[1].x.v, <<"4", "0", "4">>)
           /\ tsans.status = 500 => Contains(tsres.val.v[1].x.v, <<"5", "0", "0">>)
           /\ JSONparse(tsans.text).ok => tsres.val # JSONparse(tsans.text).val

\* A 404 whose body is the JSON text {"error":"no"} became an error value
\* holding that text.
C19_Witness ==
    /\ Executing
    /\ tspc = "returned"
    /\ tsans # EmptyObject
    /\ tsans.kind = "http"
    /\ tsans.status = 404
    /\ tsans.text = JSONstringify(ObjOf(KeyError, Str(<<"n", "o">>)))
    /\ tsres.val = ErrorValue(<<"HTTP error! Status: ", "4", "0", "4", ". Message: ">>
                               \o tsans.text)

\* The body cannot be parsed in the format the URL selects.
Unparseable(url, text) ==
    IF IsYamlUrl(url) THEN ~YamlParse(text).ok ELSE ~JSONparse(text).ok

\* C20: getToolServerData fails for every non-2xx answer, whatever the
\* error body, and for every body that cannot be parsed; it returns no
\* bundle then.
C20_ResolveFails ==
    (Resolving /\ tspc # "sent" /\ tsans.kind = "http"
        /\ (tsans.status \notin 200 .. 299 \/ Unparseable(tsargs.url, tsans.text)))
        => (tspc = "thrown" /\ tsres.kind = "thrown")

\* A 404 of a JSON document URL whose body has an empty detail made
\* getToolServerData fail.
C20_Witness ==
    /\ Resolving
    /\ tspc = "thrown"
    /\ ~IsYamlUrl(tsargs.url)
    /\ tsans.kind = "http"
    /\ tsans.status = 404
    /\ tsans.text = JSONstringify(ObjOf(KeyDetail, Str(<< >>)))


(***************************************************************************)
(* Properties of getModels: the fan-out and the order of the result.       *)
(***************************************************************************)
\* Connection idx has a configuration that asks for its endpoint's listing:
\* enabled, with an empty allow-list.
NeedsListing(idx) ==
    /\ idx \in DOMAIN connections.configs
    /\ connections.configs[idx].enable
    /\ Len(connections.configs[idx].model_ids) = 0

\* The position in requests of the promise of connection idx, 0 if none.
PositionOf(idx) ==
    IF \E k \in DOMAIN requests : requests[k].conn = idx
    THEN CHOOSE k \in DOMAIN requests : requests[k].conn = idx
    ELSE 0

\* The contributions of connections 0 .. n-1, concatenated by ascending
\* connection index.
RECURSIVE ByConnection(_)
ByConnection(n) ==
    IF n = 0 THEN << >>
    ELSE ByConnection(n - 1)
         \o (IF PositionOf(n - 1) = 0 THEN << >>
             ELSE ResponseModels(connections, requests[PositionOf(n - 1)].value,
                                 PositionOf(n - 1) - 1))

\* C21: the listing requests are all in flight before any of them is
\* answered, the merge happens only when every promise is fulfilled and
\* every listing request has been answered, and the catalog returned is the
\* base catalog followed by the contributions in connection order, whatever
\* the order in which the endpoints answered.
C21_CompletionOrderIrrelevant ==
    /\ pc = "all" =>
          /\ \A idx \in Indexes(connections.n) :
                NeedsListing(idx) => PositionOf(idx) # 0 /\ requests[PositionOf(idx)].sent
          /\ settled = << >> =>
                \A k \in DOMAIN requests : requests[k].sent => requests[k].state = "pending"
    /\ Built =>
          /\ \A k \in DOMAIN requests :
                /\ requests[k].state = "fulfilled"
                /\ requests[k].sent => \E i \in DOMAIN settled : settled[i] = k
          /\ models = ObjectValues(fetched \o MapDirect(ByConnection(connections.n)))

\* Two endpoints answered, the second connection's first, each with a
\* model, and the catalog lists the first connection's model before the
\* second's.
C21_Witness ==
    /\ Built
    /\ settled = <<2, 1>>
    /\ \E i, j \in DOMAIN models :
          /\ i < j
          /\ "origin" \in DOMAIN models[i] /\ models[i].origin = 0
          /\ "origin" \in DOMAIN models[j] /\ models[j].origin = 1
          /\ requests[1].answer = "ok" /\ requests[2].answer = "ok"


\* How many of the requests sent went to connection idx's listing endpoint.
ListingsSentTo(idx) ==
    Cardinality({i \in DOMAIN issued :
                    issued[i].to = "listing" /\ issued[i].conn = idx})

\* The build has gone on to the connections: the base request was answered
\* without an error, connections were given and base is false.
FannedOut == pc \in {"all", "done"} /\ ~connections.isNull /\ ~base

\* C22: a build sends one base-catalog request, first; once it has gone on
\* to the connections, a configured connection that is enabled with an empty
\* allow-list has been sent exactly one listing request, every other
\* connection none, an enabled connection with an allow-list has a promise
\* already fulfilled with one entry per listed id, in order, and no listing
\* request is answered twice, so a failed one was not sent again.
C22_RequestsIssuedOnce ==
    /\ pc # "idle" =>
          /\ issued[1] = BaseRequest(base)
          /\ \A i \in DOMAIN issued : i > 1 => issued[i].to = "listing"
    /\ FannedOut =>
          /\ \A idx \in Indexes(connections.n) :
                ListingsSentTo(idx) = IF NeedsListing(idx) THEN 1 ELSE 0
          /\ \A k \in DOMAIN requests :
                LET cfg == connections.configs[requests[k].conn]
                IN  (cfg.enable /\ Len(cfg.model_ids) > 0) =>
                        /\ ~requests[k].sent
                        /\ requests[k].state = "fulfilled"
                        /\ Len(requests[k].value.data) = Len(cfg.model_ids)
                        /\ \A i \in DOMAIN cfg.model_ids :
                              requests[k].value.data[i].id = cfg.model_ids[i]
          /\ \A i, j \in DOMAIN settled : settled[i] = settled[j] => i = j
          /\ \A k \in DOMAIN requests : Failed(k) => requests[k].state = "fulfilled"
    /\ ~FannedOut => Len(issued) <= 1

\* A build returned after one connection's listing request failed while
\* another connection, enabled, had its models made from its allow-list.
C22_Witness ==
    /\ Built
    /\ \E k, j \in DOMAIN requests :
          /\ Failed(k)
          /\ ListingsSentTo(requests[k].conn) = 1
          /\ ~requests[j].sent
          /\ connections.configs[requests[j].conn].enable
          /\ requests[j].value.data # << >>


\* C24: after a build with connections the result lists each id once, at
\* the place of its first occurrence in the base catalog followed by the
\* connections' entries: of two entries of the result, the one whose id was
\* written first comes first.
C24_InsertionOrder ==
    Built =>
        \A i, j \in DOMAIN models :
            (i < j) <=> (FirstWriteOf(AllEntries, models[i].id)
                           < FirstWriteOf(AllEntries, models[j].id))

\* C25: no listing request is sent while the base request is unanswered,
\* and once the base request has failed, by a network failure or a non-2xx
\* answer with any body, the build has thrown what the request failed with,
\* has sent no listing request and has no catalog.
C25_BaseFailureRaised ==
    /\ pc = "base" => Len(issued) = 1 /\ requests = << >>
    /\ (pc \notin {"idle", "base"} /\ ~answered.ok) =>
          /\ pc = "thrown"
          /\ error = answered.err
          /\ Len(issued) = 1
          /\ requests = << >>
          /\ models = << >>

(***************************************************************************)
(* Properties of the task decoders taken together.                         *)
(***************************************************************************)
\* C23: whichever of the five decoders is applied to a content, the
\* extraction of generateTitle, generateFollowUps and generateTags and the
\* extraction of generateQueries and generateAutoCompletion find the same
\* object in it, or both find none.
C23_OneExtraction ==
    op \in {"title", "follow_ups", "tags", "queries", "auto"} =>
        ExtractObjectRaw(content) = ExtractObject(content)


(***************************************************************************)
(* Properties of getToolServersData.                                       *)
(***************************************************************************)
\* The positions in svorder at which promise k settled.
SettledAt(k) == {i \in DOMAIN svorder : svorder[i] = k}

\* The bundles of the result made for the server at position i of servers.
BundlesOf(i) == {j \in DOMAIN svres : svres[j].origin = i}

\* C26: getToolServersData never throws; the document of each enabled
\* server is requested exactly once, at the URL made of its url and path,
\* and none is requested for a server that is not enabled; all the requests
\* are pending before any has settled; the result holds one bundle for each
\* enabled server whose getToolServerData returned and none for any other
\* server, in the order of servers, whatever the order of settlement.
C26_ServersIsolated ==
    /\ svpc # "thrown"
    /\ svpc \in {"all", "returned"} =>
          /\ \A i \in DOMAIN servers :
                LET mine == {k \in DOMAIN svreqs : svreqs[k].server = i}
                IN  /\ Cardinality(mine) = IF ServerEnabled(servers[i]) THEN 1 ELSE 0
                    /\ \A k \in mine :
                          svreqs[k].request.url = ServerDocumentUrl(servers[i])
          /\ svorder = << >> => \A k \in DOMAIN svreqs : svreqs[k].state = "pending"
    /\ svpc = "returned" =>
          /\ \A k \in DOMAIN svreqs :
                /\ Cardinality(SettledAt(k)) = 1
                /\ Cardinality(BundlesOf(svreqs[k].server))
                      = IF svreqs[k].failed THEN 0 ELSE 1
          /\ \A j \in DOMAIN svres :
                /\ \E k \in DOMAIN svreqs : svreqs[k].server = svres[j].origin
                /\ svres[j].url = servers[svres[j].origin].url
          /\ \A a, b \in DOMAIN svres : a < b => svres[a].origin < svres[b].origin

\* Three enabled servers: the third answered first and the first last, both
\* with their document, the second failed, and the result is the first
\* server's bundle followed by the third's.
C26_Witness ==
    /\ svpc = "returned"
    /\ Len(svreqs) = 3
    /\ svorder = <<3, 2, 1>>
    /\ svreqs[2].failed
    /\ Len(svres) = 2
    /\ svres[1].origin = 1
    /\ svres[2].origin = 3

====
